---- MODULE Spec2Model ----
(***************************************************************************)
(* Verification model of the generator-based streaming layer               *)
(* (python-generators-0x00), of the decorator-based resilient-call layer   *)
(* (python-decorators-0x01) and of the ExecuteQuery and                    *)
(* DatabaseConnectionPool context managers                                 *)
(* (python-context-async-perations-0x02).                                  *)
(*                                                                         *)
(* Each component is a state machine of its own; the module gives one      *)
(* specification per component (SpecGen, SpecAges, SpecRetry, SpecCache,   *)
(* SpecTxn, SpecConn, SpecStack, SpecExec, SpecPool, SpecConc).  The       *)
(* variables of the other components stay at their idle values.            *)
(***************************************************************************)
EXTENDS Integers, Sequences, FiniteSets, TLC

\* ---- bounds of the model ------------------------------------------------
MaxRows == 4
MaxSize == 3
MaxRetries == 3
MaxCalls == 3
MaxTime == 3
MaxWrites == 2
MaxTxnCalls == 2
MaxClears == 1
MaxAgeRows == 6
MaxUses == 3
MaxDepth == 2
MaxStackCalls == 2
MaxPoolUses == 4
MaxThreadCalls == 2
MaxConcTime == 2

VARIABLES
    \* the data source and the generator frames of python-generators-0x00
    gen,          \* the generator the consumer drives: batch, paginate, stream
    R,            \* the ordered row sequence the source serves
    pc,           \* generator state: created, suspended, exhausted, closed, raised
    exc,          \* exception that left the generator ("none" if none)
    yielded,      \* items handed to the consumer so far, in order
    conn,         \* current connection: none, open, closed, lost
    cursor,       \* local variable cursor: unbound, open, closed
    opened,       \* connections obtained so far
    closeCalls,   \* connection.close() calls so far
    fault,        \* first failure the data source produced ("none" if none)
    batch_size,   \* argument of stream_users_in_batches
    pos,          \* rows the open cursor has handed out
    page_size,    \* argument of lazy_paginate
    offset,       \* local variable offset of lazy_paginate
    fetchLog,     \* (limit, offset) of every paginate_users call, in order
    requests,     \* next() calls made by the consumer
    \* cache_query (4-cache_query.py)
    query_cache,  \* the global dictionary: cache key -> CacheEntry
    now,          \* the clock, in seconds
    ttl,          \* the decorator's ttl argument
    callLog,      \* one record per finished call of the wrapped function
    clearLog,     \* what every clear_cache() call printed and returned
    \* retry_on_failure (3-retry_on_failure.py)
    retries,      \* the decorator's retries argument
    delay,        \* the decorator's delay argument, in tenths of a second
    rpc,          \* idle, running, returned, raised
    attempt,      \* loop variable of the wrapper
    current_delay,
    last_exception,
    outcomes,     \* what each invocation of the wrapped function did
    sleeps,       \* the argument of every time.sleep call, in order
    result,       \* value the wrapper returned
    \* transactional under with_db_connection (2-transactional.py)
    store,        \* the committed content of users.db
    pending,      \* uncommitted writes of the open connection
    inTxn,        \* the connection has an open transaction
    tpc,          \* idle, body, returned, raised
    tconn,        \* the connection of the call: none, open, closed
    tlog,         \* BEGIN / commit / rollback / close, in order
    plan,         \* what the wrapped operation is going to do
    texc,         \* exception that reached the caller
    before,       \* the store when the call started
    \* with_db_connection (1-with_db_connection.py)
    wpc,          \* idle, body
    wconns,       \* per connection opened: its state and its close() calls
    wlog,         \* outcome of every finished call
    \* calculate_average_age (4-stream_ages.py)
    apc,          \* idle, looping, returned, raised
    total_age,    \* local variable total_age
    user_count,   \* local variable user_count
    average,      \* the value returned, as a fraction
    \* ExecuteQuery (1-execute.py)
    xpc,              \* idle, body (inside the with block)
    self_connection,  \* attribute connection of the manager: None or set
    self_cursor,      \* attribute cursor of the manager: None or set
    xres,             \* per with statement: state of its connection and cursor
    xlog,             \* per with statement that is over: how it went
    \* a function under a stack of the decorators of python-decorators-0x01
    stack,        \* the decorators applied, outermost first
    frames,       \* the wrappers that are running, outermost first: for
                  \* retry_on_failure its loop variable attempt, else 0
    sig,          \* the control transfer in flight: a call going down or a
                  \* return / exception going up
    sops,         \* what each invocation of the function did, this call
    scleanup,     \* connect, BEGIN, commit, rollback, close of this call
    scached,      \* query_cache holds the entry of this function and arguments
    scalls,       \* calls that are over
    sresult,      \* what the last call gave its caller
    \* a DatabaseConnectionPool object and its with statements
    pool_size,             \* self.pool_size
    active_connections,    \* self.active_connections
    connection_history,    \* self.connection_history
    current_connection_id, \* self._current_connection_id (0: attribute not set)
    pconns,       \* every connection sqlite3.connect returned: open or closed
    pblocks,      \* with blocks entered and not yet left, innermost last
    penters,      \* __enter__ calls so far
    \* two threads calling one cached operation with the same arguments
    cpc,          \* where each thread is in the wrapper of cache_query
    cache_entry,  \* local cache_entry of each thread: an object (0: unbound)
    loaded,       \* the hit_count each thread read for its += 1
    cresult,      \* local result of each thread
    ccalls,       \* calls each thread has made
    objects,      \* the CacheEntry objects created so far
    cstore,       \* query_cache[cache_key]: the object stored (0: key absent)
    cnow,         \* the clock the threads read
    cttl,         \* ttl argument of the decorator
    invocations,  \* invocations of the wrapped function so far
    clog          \* what each finished call gave its caller

genVars == <<gen, R, pc, exc, yielded, conn, cursor, opened, closeCalls, fault,
             batch_size, pos, page_size, offset, fetchLog, requests>>

cacheVars == <<query_cache, now, ttl, callLog, clearLog>>

retryVars == <<retries, delay, rpc, attempt, current_delay, last_exception,
               outcomes, sleeps, result>>

txnVars == <<store, pending, inTxn, tpc, tconn, tlog, plan, texc, before>>

connVars == <<wpc, wconns, wlog>>

ageVars == <<apc, total_age, user_count, average>>

execVars == <<xpc, self_connection, self_cursor, xres, xlog>>

stackVars == <<stack, frames, sig, sops, scleanup, scached, scalls, sresult>>

poolVars == <<pool_size, active_connections, connection_history,
              current_connection_id, pconns, pblocks, penters>>

concVars == <<cpc, cache_entry, loaded, cresult, ccalls, objects, cstore,
              cnow, cttl, invocations, clog>>

vars == <<genVars, cacheVars, retryVars, txnVars, connVars, ageVars, execVars,
          stackVars, poolVars, concVars>>

\* ---- the data source ----------------------------------------------------
SampleAges == <<28, 35, 42, 29, 33>>

Age(i) == SampleAges[((i - 1) % Len(SampleAges)) + 1]

\* a row of user_data as the dictionary cursor returns it
Row(i) == [user_id |-> i, name |-> i, email |-> i, age |-> Age(i)]

\* user_data with n rows, in user_id order
UserData(n) == [i \in 1..n |-> Row(i)]

Sizes == {-1, 0} \cup (1..MaxSize)

\* the dictionary the generators build from a row
FormatRow(row) == [user_id |-> row.user_id, name |-> row.name,
                   email |-> row.email, age |-> row.age]

FormatRows(rows) == [i \in 1..Len(rows) |-> FormatRow(rows[i])]

Min(a, b) == IF a < b THEN a ELSE b

\* cursor.fetchmany(n) on a cursor that has handed out p rows of rows
FetchMany(rows, p, n) == SubSeq(rows, p + 1, Min(p + n, Len(rows)))

\* SELECT ... ORDER BY user_id LIMIT limit OFFSET off, then fetchall()
LimitOffset(rows, limit, off) == SubSeq(rows, off + 1, Min(off + limit, Len(rows)))

RECURSIVE Concat(_)
Concat(ss) == IF ss = <<>> THEN <<>> ELSE Head(ss) \o Concat(Tail(ss))

GenIdle ==
    /\ gen = "none" /\ R = <<>> /\ pc = "off" /\ exc = "none" /\ yielded = <<>>
    /\ conn = "none" /\ cursor = "unbound" /\ opened = 0 /\ closeCalls = 0
    /\ fault = "none" /\ batch_size = 0 /\ pos = 0 /\ page_size = 0
    /\ offset = 0 /\ fetchLog = <<>> /\ requests = 0

CacheIdle ==
    /\ query_cache = <<>> /\ now = 0 /\ ttl = 0 /\ callLog = <<>>
    /\ clearLog = <<>>

RetryIdle ==
    /\ retries = 0 /\ delay = 0 /\ rpc = "off" /\ attempt = 0
    /\ current_delay = 0 /\ last_exception = [kind |-> "None", msg |-> <<>>]
    /\ outcomes = <<>> /\ sleeps = <<>> /\ result = "none"

TxnIdle ==
    /\ store = {} /\ pending = <<>> /\ inTxn = FALSE /\ tpc = "off"
    /\ tconn = "none" /\ tlog = <<>> /\ texc = "none"
    /\ plan = [call |-> 0, writes |-> 0, failKind |-> "none", failAt |-> 0]
    /\ before = {}

ConnIdle ==
    /\ wpc = "off" /\ wconns = <<>> /\ wlog = <<>>

\* a float that is the quotient of two ints, kept exact
Fraction(n, d) == [num |-> n, den |-> d]

AgeIdle ==
    /\ apc = "off" /\ total_age = 0 /\ user_count = 0
    /\ average = Fraction(0, 1)

ExecIdle ==
    /\ xpc = "off" /\ self_connection = "None" /\ self_cursor = "None"
    /\ xres = <<>> /\ xlog = <<>>

StackIdle ==
    /\ stack = <<>> /\ frames = <<>>
    /\ sig = [dir |-> "off", val |-> [kind |-> "None", msg |-> <<>>]]
    /\ sops = <<>> /\ scleanup = <<>> /\ scached = FALSE /\ scalls = 0
    /\ sresult = [kind |-> "None", msg |-> <<>>]

PoolIdle ==
    /\ pool_size = 0 /\ active_connections = 0 /\ connection_history = <<>>
    /\ current_connection_id = 0 /\ pconns = <<>> /\ pblocks = <<>>
    /\ penters = 0

ConcIdle ==
    /\ cpc = <<>> /\ cache_entry = <<>> /\ loaded = <<>> /\ cresult = <<>>
    /\ ccalls = <<>> /\ objects = <<>> /\ cstore = 0 /\ cnow = 0
    /\ cttl = 0 /\ invocations = 0 /\ clog = <<>>

GenStart ==
    /\ R \in {UserData(n) : n \in 0..MaxRows}
    /\ pc = "created" /\ exc = "none" /\ yielded = <<>>
    /\ conn = "none" /\ cursor = "unbound" /\ opened = 0 /\ closeCalls = 0
    /\ fault = "none" /\ pos = 0 /\ offset = 0 /\ fetchLog = <<>>
    /\ requests = 0

FirstFault(f) == IF fault = "none" THEN f ELSE fault

\* the finally block of the generators: cursor.close() when the local
\* variable cursor is bound, connection.close() when still connected;
\* reading the unbound cursor raises UnboundLocalError and skips the rest.
Finally(newpc, newexc, connNow, cursorNow) ==
    IF cursorNow = "unbound"
    THEN /\ pc' = "raised" /\ exc' = "UnboundLocalError"
         /\ cursor' = cursorNow
         /\ conn' = connNow /\ closeCalls' = closeCalls
    ELSE /\ pc' = newpc /\ exc' = newexc
         /\ cursor' = "closed"
         /\ conn' = (IF connNow = "open" THEN "closed" ELSE connNow)
         /\ closeCalls' = (IF connNow = "open" THEN closeCalls + 1 ELSE closeCalls)

\* ---- stream_users_in_batches (1-batch_processing.py) ---------------------
\* one pass of the while loop on an open cursor; f is what the source does
BatchFetchShort(f) ==
    /\ fault' = FirstFault(f)
    /\ IF f = "none"
       THEN LET batch == FetchMany(R, pos, batch_size) IN
            IF Len(batch) < batch_size
            THEN /\ Finally("exhausted", "none", "open", "open")
                 /\ UNCHANGED <<yielded, pos>>
            ELSE /\ yielded' = Append(yielded, FormatRows(batch))
                 /\ pos' = pos + Len(batch)
                 /\ pc' = "suspended" /\ exc' = "none"
                 /\ conn' = "open" /\ cursor' = "open"
                 /\ closeCalls' = closeCalls
       ELSE /\ Finally("exhausted", "none",
                       IF f = "lost" THEN "lost" ELSE "open", "open")
            /\ UNCHANGED <<yielded, pos>>

BatchFetch(f) ==
    /\ fault' = FirstFault(f)
    /\ IF f = "none"
       THEN LET batch == FetchMany(R, pos, batch_size) IN
            IF batch = <<>>
            THEN /\ Finally("exhausted", "none", "open", "open")
                 /\ UNCHANGED <<yielded, pos>>
            ELSE /\ yielded' = Append(yielded, FormatRows(batch))
                 /\ pos' = pos + Len(batch)
                 /\ pc' = "suspended" /\ exc' = "none"
                 /\ conn' = "open" /\ cursor' = "open"
                 /\ closeCalls' = closeCalls
       ELSE /\ Finally("exhausted", "none",
                       IF f = "lost" THEN "lost" ELSE "open", "open")
            /\ UNCHANGED <<yielded, pos>>

\* first next(): the body runs from the top to the first yield or to the end
BatchStartLate(f) ==
    /\ gen = "batch" /\ pc = "created"
    /\ requests' = requests + 1
    /\ UNCHANGED <<gen, R, batch_size, page_size, offset, fetchLog>>
    /\ UNCHANGED <<cacheVars, retryVars, txnVars, connVars, ageVars, execVars, stackVars, poolVars, concVars>>
    /\ IF f = "connect"
       THEN /\ fault' = FirstFault(f)
            /\ pc' = "exhausted"
            /\ UNCHANGED <<exc, yielded, conn, cursor, opened, closeCalls, pos>>
       ELSE /\ opened' = opened + 1
            /\ IF batch_size <= 0
               THEN /\ pc' = "raised" /\ exc' = "ValueError" /\ conn' = "open"
                    /\ UNCHANGED <<yielded, cursor, closeCalls, fault, pos>>
               ELSE BatchFetch(IF f \in {"cursor", "execute"} THEN "fetch" ELSE f)

BatchStart(f) ==
    /\ gen = "batch" /\ pc = "created"
    /\ requests' = requests + 1
    /\ UNCHANGED <<gen, R, batch_size, page_size, offset, fetchLog>>
    /\ UNCHANGED <<cacheVars, retryVars, txnVars, connVars, ageVars, execVars, stackVars, poolVars, concVars>>
    /\ IF batch_size <= 0
       THEN /\ f = "none"
            /\ pc' = "raised" /\ exc' = "ValueError"
            /\ UNCHANGED <<yielded, conn, cursor, opened, closeCalls, fault, pos>>
       ELSE IF f = "connect"
       THEN /\ fault' = FirstFault(f)
            /\ pc' = "exhausted"
            /\ UNCHANGED <<exc, yielded, conn, cursor, opened, closeCalls, pos>>
       ELSE /\ opened' = opened + 1
            /\ IF f = "cursor"
               THEN /\ fault' = FirstFault(f)
                    /\ Finally("exhausted", "none", "open", "unbound")
                    /\ UNCHANGED <<yielded, pos>>
               ELSE IF f = "execute"
               THEN /\ fault' = FirstFault(f)
                    /\ Finally("exhausted", "none", "open", "open")
                    /\ UNCHANGED <<yielded, pos>>
               ELSE BatchFetch(f)

\* a later next(): the body resumes after the yield
BatchResume(f) ==
    /\ gen = "batch" /\ pc = "suspended"
    /\ requests' = requests + 1
    /\ UNCHANGED <<gen, R, batch_size, page_size, offset, fetchLog, opened>>
    /\ UNCHANGED <<cacheVars, retryVars, txnVars, connVars, ageVars, execVars, stackVars, poolVars, concVars>>
    /\ BatchFetch(f)

\* the consumer stops early: close() raises GeneratorExit at the yield,
\* which no except clause catches, and the finally block runs; a generator
\* that never started just ends
BatchClose ==
    /\ gen = "batch" /\ pc \in {"created", "suspended"}
    /\ UNCHANGED <<gen, R, batch_size, page_size, offset, fetchLog, opened,
                   requests, yielded, pos, fault>>
    /\ UNCHANGED <<cacheVars, retryVars, txnVars, connVars, ageVars, execVars, stackVars, poolVars, concVars>>
    /\ IF pc = "created"
       THEN /\ pc' = "closed" /\ UNCHANGED <<exc, conn, cursor, closeCalls>>
       ELSE Finally("closed", "none", conn, cursor)

\* ---- paginate_users and lazy_paginate (2-lazy_paginate.py) ---------------
\* paginate_users(page_size, off) followed by what lazy_paginate does with
\* the page, up to the yield or the end of the generator; off is the value
\* the local variable offset has at the call
PagFetchRaising(f, off) ==
    /\ fetchLog' = Append(fetchLog, <<page_size, off>>)
    /\ fault' = FirstFault(f)
    /\ offset' = off
    /\ IF f = "connect"
       THEN /\ pc' = "raised" /\ exc' = "Error"
            /\ UNCHANGED <<yielded, conn, cursor, opened, closeCalls>>
       ELSE /\ opened' = opened + 1
            /\ IF f = "cursor"
               THEN /\ Finally("exhausted", "none", "open", "unbound")
                    /\ UNCHANGED yielded
               ELSE IF f # "none"
               THEN /\ Finally("raised", "Error",
                               IF f = "lost" THEN "lost" ELSE "open", "open")
                    /\ UNCHANGED yielded
               ELSE LET page == FormatRows(LimitOffset(R, page_size, off)) IN
                    /\ Finally(IF page = <<>> THEN "exhausted" ELSE "suspended",
                               "none", "open", "open")
                    /\ yielded' = (IF page = <<>> THEN yielded
                                   ELSE Append(yielded, page))

PagFetch(f, off) ==
    /\ fetchLog' = Append(fetchLog, <<page_size, off>>)
    /\ fault' = FirstFault(f)
    /\ offset' = off
    /\ IF f = "connect"
       THEN /\ pc' = "exhausted"
            /\ UNCHANGED <<exc, yielded, conn, cursor, opened, closeCalls>>
       ELSE /\ opened' = opened + 1
            /\ IF f = "cursor"
               THEN /\ Finally("exhausted", "none", "open", "unbound")
                    /\ UNCHANGED yielded
               ELSE IF f # "none"
               THEN /\ Finally("exhausted", "none",
                               IF f = "lost" THEN "lost" ELSE "open", "open")
                    /\ UNCHANGED yielded
               ELSE LET page == FormatRows(LimitOffset(R, page_size, off)) IN
                    /\ Finally(IF page = <<>> THEN "exhausted" ELSE "suspended",
                               "none", "open", "open")
                    /\ yielded' = (IF page = <<>> THEN yielded
                                   ELSE Append(yielded, page))

\* first next() of lazy_paginate
PagStartEager(f) ==
    /\ gen = "paginate" /\ pc = "created"
    /\ requests' = requests + 1
    /\ UNCHANGED <<gen, R, batch_size, page_size, pos>>
    /\ UNCHANGED <<cacheVars, retryVars, txnVars, connVars, ageVars, execVars, stackVars, poolVars, concVars>>
    /\ IF page_size <= 0
       THEN /\ f = "none"
            /\ pc' = "raised" /\ exc' = "ValueError"
            /\ UNCHANGED <<yielded, conn, cursor, opened, closeCalls, fault,
                           offset, fetchLog>>
       ELSE IF f = "none"
       THEN LET page == FormatRows(LimitOffset(R, page_size, 0)) IN
            /\ fetchLog' = fetchLog \o <<<<page_size, 0>>, <<page_size, page_size>>>>
            /\ fault' = fault /\ offset' = 0 /\ opened' = opened + 2
            /\ Finally(IF page = <<>> THEN "exhausted" ELSE "suspended",
                       "none", "open", "open")
            /\ yielded' = (IF page = <<>> THEN yielded ELSE Append(yielded, page))
       ELSE PagFetch(f, 0)

PagStart(f) ==
    /\ gen = "paginate" /\ pc = "created"
    /\ requests' = requests + 1
    /\ UNCHANGED <<gen, R, batch_size, page_size, pos>>
    /\ UNCHANGED <<cacheVars, retryVars, txnVars, connVars, ageVars, execVars, stackVars, poolVars, concVars>>
    /\ IF page_size <= 0
       THEN /\ f = "none"
            /\ pc' = "raised" /\ exc' = "ValueError"
            /\ UNCHANGED <<yielded, conn, cursor, opened, closeCalls, fault,
                           offset, fetchLog>>
       ELSE PagFetch(f, 0)

PagResumeNoBreak(f) ==
    /\ gen = "paginate" /\ pc = "suspended"
    /\ requests' = requests + 1
    /\ UNCHANGED <<gen, R, batch_size, page_size, pos>>
    /\ UNCHANGED <<cacheVars, retryVars, txnVars, connVars, ageVars, execVars, stackVars, poolVars, concVars>>
    /\ PagFetch(f, offset + page_size)

PagResumeByRows(f) ==
    /\ gen = "paginate" /\ pc = "suspended"
    /\ requests' = requests + 1
    /\ UNCHANGED <<gen, R, batch_size, page_size, pos>>
    /\ UNCHANGED <<cacheVars, retryVars, txnVars, connVars, ageVars, execVars, stackVars, poolVars, concVars>>
    /\ PagFetch(f, offset + Len(yielded[Len(yielded)]))

\* a later next(): offset += page_size, the short-page test, the next fetch
PagResume(f) ==
    /\ gen = "paginate" /\ pc = "suspended"
    /\ requests' = requests + 1
    /\ UNCHANGED <<gen, R, batch_size, page_size, pos>>
    /\ UNCHANGED <<cacheVars, retryVars, txnVars, connVars, ageVars, execVars, stackVars, poolVars, concVars>>
    /\ IF Len(yielded[Len(yielded)]) < page_size
       THEN /\ f = "none"
            /\ offset' = offset + page_size
            /\ pc' = "exhausted"
            /\ UNCHANGED <<exc, yielded, conn, cursor, opened, closeCalls,
                           fault, fetchLog>>
       ELSE PagFetch(f, offset + page_size)

\* the consumer stops early; lazy_paginate holds no resource at its yield
PagClose ==
    /\ gen = "paginate" /\ pc \in {"created", "suspended"}
    /\ pc' = "closed"
    /\ UNCHANGED <<gen, R, exc, yielded, conn, cursor, opened, closeCalls,
                   fault, batch_size, pos, page_size, offset, fetchLog, requests>>
    /\ UNCHANGED <<cacheVars, retryVars, txnVars, connVars, ageVars, execVars, stackVars, poolVars, concVars>>

\* ---- stream_users (0-stream_users.py) -------------------------------------
\* one step of "for row in cursor" on an open cursor
StreamFetchRaising(f) ==
    /\ fault' = FirstFault(f)
    /\ IF f = "none"
       THEN IF pos = Len(R)
            THEN /\ Finally("exhausted", "none", "open", "open")
                 /\ UNCHANGED <<yielded, pos>>
            ELSE /\ yielded' = Append(yielded, FormatRow(R[pos + 1]))
                 /\ pos' = pos + 1
                 /\ pc' = "suspended" /\ exc' = "none"
                 /\ conn' = "open" /\ cursor' = "open"
                 /\ closeCalls' = closeCalls
       ELSE /\ Finally("raised", "Error",
                       IF f = "lost" THEN "lost" ELSE "open", "open")
            /\ UNCHANGED <<yielded, pos>>

StreamFetch(f) ==
    /\ fault' = FirstFault(f)
    /\ IF f = "none"
       THEN IF pos = Len(R)
            THEN /\ Finally("exhausted", "none", "open", "open")
                 /\ UNCHANGED <<yielded, pos>>
            ELSE /\ yielded' = Append(yielded, FormatRow(R[pos + 1]))
                 /\ pos' = pos + 1
                 /\ pc' = "suspended" /\ exc' = "none"
                 /\ conn' = "open" /\ cursor' = "open"
                 /\ closeCalls' = closeCalls
       ELSE /\ Finally("exhausted", "none",
                       IF f = "lost" THEN "lost" ELSE "open", "open")
            /\ UNCHANGED <<yielded, pos>>

\* first next() of stream_users
StreamStart(f) ==
    /\ gen = "stream" /\ pc = "created"
    /\ requests' = requests + 1
    /\ UNCHANGED <<gen, R, batch_size, page_size, offset, fetchLog>>
    /\ UNCHANGED <<cacheVars, retryVars, txnVars, connVars, ageVars, execVars, stackVars, poolVars, concVars>>
    /\ IF f = "connect"
       THEN /\ fault' = FirstFault(f)
            /\ pc' = "exhausted"
            /\ UNCHANGED <<exc, yielded, conn, cursor, opened, closeCalls, pos>>
       ELSE /\ opened' = opened + 1
            /\ IF f = "cursor"
               THEN /\ fault' = FirstFault(f)
                    /\ Finally("exhausted", "none", "open", "unbound")
                    /\ UNCHANGED <<yielded, pos>>
               ELSE IF f = "execute"
               THEN /\ fault' = FirstFault(f)
                    /\ Finally("exhausted", "none", "open", "open")
                    /\ UNCHANGED <<yielded, pos>>
               ELSE StreamFetch(f)

\* a later next() of stream_users
StreamResume(f) ==
    /\ gen = "stream" /\ pc = "suspended"
    /\ requests' = requests + 1
    /\ UNCHANGED <<gen, R, batch_size, page_size, offset, fetchLog, opened>>
    /\ UNCHANGED <<cacheVars, retryVars, txnVars, connVars, ageVars, execVars, stackVars, poolVars, concVars>>
    /\ StreamFetch(f)

\* the consumer stops early: GeneratorExit at the yield, then the finally block
StreamClose ==
    /\ gen = "stream" /\ pc \in {"created", "suspended"}
    /\ UNCHANGED <<gen, R, batch_size, page_size, offset, fetchLog, opened,
                   requests, yielded, pos, fault>>
    /\ UNCHANGED <<cacheVars, retryVars, txnVars, connVars, ageVars, execVars, stackVars, poolVars, concVars>>
    /\ IF pc = "created"
       THEN /\ pc' = "closed" /\ UNCHANGED <<exc, conn, cursor, closeCalls>>
       ELSE Finally("closed", "none", conn, cursor)

\* what the data source may do during a next()
StartFaults == {"none", "connect", "cursor", "execute", "fetch", "lost"}
FetchFaults == {"none", "fetch", "lost"}

InitGen ==
    /\ GenStart
    /\ gen \in {"batch", "paginate", "stream"}
    /\ batch_size \in (IF gen = "batch" THEN Sizes ELSE {0})
    /\ page_size \in (IF gen = "paginate" THEN Sizes ELSE {0})
    /\ CacheIdle /\ RetryIdle /\ TxnIdle /\ ConnIdle /\ AgeIdle /\ ExecIdle /\ StackIdle /\ PoolIdle /\ ConcIdle

NextGen ==
    \/ \E f \in StartFaults : BatchStart(f)
    \/ \E f \in FetchFaults : BatchResume(f)
    \/ BatchClose
    \/ \E f \in StartFaults : PagStart(f)
    \/ \E f \in StartFaults : PagResume(f)
    \/ PagClose
    \/ \E f \in StartFaults : StreamStart(f)
    \/ \E f \in FetchFaults : StreamResume(f)
    \/ StreamClose

SpecGen == InitGen /\ [][NextGen]_vars

\* ---- stream_user_ages and calculate_average_age (4-stream_ages.py) -------
\* one step of "for (age,) in cursor" on an open cursor
AgesFetch(f) ==
    /\ fault' = FirstFault(f)
    /\ IF f = "none"
       THEN IF pos = Len(R)
            THEN /\ Finally("exhausted", "none", "open", "open")
                 /\ UNCHANGED <<yielded, pos>>
            ELSE /\ yielded' = Append(yielded, R[pos + 1].age)
                 /\ pos' = pos + 1
                 /\ pc' = "suspended" /\ exc' = "none"
                 /\ conn' = "open" /\ cursor' = "open"
                 /\ closeCalls' = closeCalls
       ELSE /\ Finally("exhausted", "none",
                       IF f = "lost" THEN "lost" ELSE "open", "open")
            /\ UNCHANGED <<yielded, pos>>

\* next() of stream_user_ages, the first one or a later one
AgesNext(f) ==
    /\ requests' = requests + 1
    /\ UNCHANGED <<gen, R, batch_size, page_size, offset, fetchLog>>
    /\ IF pc = "suspended"
       THEN /\ f \in FetchFaults
            /\ UNCHANGED opened
            /\ AgesFetch(f)
       ELSE IF f = "connect"
       THEN /\ fault' = FirstFault(f)
            /\ pc' = "exhausted"
            /\ UNCHANGED <<exc, yielded, conn, cursor, opened, closeCalls, pos>>
       ELSE /\ opened' = opened + 1
            /\ IF f = "cursor"
               THEN /\ fault' = FirstFault(f)
                    /\ Finally("exhausted", "none", "open", "unbound")
                    /\ UNCHANGED <<yielded, pos>>
               ELSE IF f = "execute"
               THEN /\ fault' = FirstFault(f)
                    /\ Finally("exhausted", "none", "open", "open")
                    /\ UNCHANGED <<yielded, pos>>
               ELSE AgesFetch(f)

\* total_age / user_count if user_count > 0, else 0.0
AverageFloor(total, count) ==
    IF count > 0 THEN Fraction(total \div count, 1) ELSE Fraction(0, 1)

Average(total, count) ==
    IF count > 0 THEN Fraction(total, count) ELSE Fraction(0, 1)

\* calculate_average_age() is called: the two assignments, and
\* stream_user_ages() creates the generator
AvgCall ==
    /\ gen = "ages" /\ apc = "idle" /\ pc = "created"
    /\ apc' = "looping" /\ total_age' = 0 /\ user_count' = 0
    /\ UNCHANGED average
    /\ UNCHANGED <<genVars, cacheVars, retryVars, txnVars, connVars, execVars, stackVars, poolVars, concVars>>

\* one pass of "for age in stream_user_ages()": the next() and the loop
\* body, or the end of the loop and the return, or the exception that
\* leaves the generator and the function
AvgLoop(f) ==
    /\ gen = "ages" /\ apc = "looping" /\ pc \in {"created", "suspended"}
    /\ AgesNext(f)
    /\ UNCHANGED <<cacheVars, retryVars, txnVars, connVars, execVars, stackVars, poolVars, concVars>>
    /\ IF pc' = "suspended"
       THEN /\ total_age' = total_age + yielded'[Len(yielded')]
            /\ user_count' = user_count + 1
            /\ UNCHANGED <<apc, average>>
       ELSE IF pc' = "exhausted"
       THEN /\ average' = Average(total_age, user_count)
            /\ apc' = "returned"
            /\ UNCHANGED <<total_age, user_count>>
       ELSE /\ apc' = "raised"
            /\ UNCHANGED <<total_age, user_count, average>>

InitAges ==
    /\ R \in {UserData(n) : n \in 0..MaxAgeRows}
    /\ gen = "ages" /\ batch_size = 0 /\ page_size = 0
    /\ pc = "created" /\ exc = "none" /\ yielded = <<>>
    /\ conn = "none" /\ cursor = "unbound" /\ opened = 0 /\ closeCalls = 0
    /\ fault = "none" /\ pos = 0 /\ offset = 0 /\ fetchLog = <<>>
    /\ requests = 0
    /\ apc = "idle" /\ total_age = 0 /\ user_count = 0
    /\ average = Fraction(0, 1)
    /\ CacheIdle /\ RetryIdle /\ TxnIdle /\ ConnIdle /\ ExecIdle /\ StackIdle /\ PoolIdle /\ ConcIdle

NextAges ==
    \/ AvgCall
    \/ \E f \in StartFaults : AvgLoop(f)

SpecAges == InitAges /\ [][NextAges]_vars

\* ---- retry_on_failure (3-retry_on_failure.py) ----------------------------
\* An exception is its class and its message; a message is a sequence of
\* words, so that str(exception).lower() and "pattern in error_message" are
\* computed, not assumed.
LowerWord(w) ==
    CASE w = "UNIQUE" -> "unique"
      [] w = "NOT" -> "not"
      [] w = "NULL" -> "null"
      [] w = "SELCT" -> "selct"
      [] w = "Simulated" -> "simulated"
      [] w = "Batch" -> "batch"
      [] w = "Page" -> "page"
      [] w = "Transaction" -> "transaction"
      [] OTHER -> w

\* str.lower()
Lower(msg) == [i \in 1..Len(msg) |-> LowerWord(msg[i])]

\* pattern in error_message
Contains(pattern, msg) ==
    \E k \in 0..(Len(msg) - Len(pattern)) :
        \A i \in 1..Len(pattern) : msg[k + i] = pattern[i]

retryable_patterns ==
    { <<"database", "is", "locked">>, <<"database", "is", "busy">>,
      <<"disk", "i/o", "error">>, <<"cannot", "start", "transaction">>,
      <<"connection", "failed">>, <<"network", "error">>, <<"timeout">>,
      <<"temporary", "failure">>, <<"deadlock">>,
      <<"connection", "refused">>, <<"connection", "reset">> }

non_retryable_patterns ==
    { <<"syntax", "error">>, <<"no", "such", "table">>,
      <<"no", "such", "column">>, <<"unique", "constraint", "failed">>,
      <<"foreign", "key", "constraint", "failed">>,
      <<"not", "null", "constraint", "failed">>,
      <<"check", "constraint", "failed">> }

\* the classes of the isinstance test
RetryableKinds == {"OperationalError", "ConnectionError", "TimeoutError"}

\* _is_retryable_error(exception)
IsRetryable(e) ==
    LET error_message == Lower(e.msg) IN
    IF \E p \in retryable_patterns : Contains(p, error_message) THEN TRUE
    ELSE IF e.kind \in RetryableKinds THEN TRUE
    ELSE IF \E p \in non_retryable_patterns : Contains(p, error_message) THEN FALSE
    ELSE TRUE

\* errors the wrapped functions of the module raise
\* cursor.execute("SELCT * FROM users")
SyntaxOperational ==
    [kind |-> "OperationalError", msg |-> <<"near", "SELCT", ":", "syntax", "error">>]
NoSuchTable ==
    [kind |-> "OperationalError", msg |-> <<"no", "such", "table", ":", "bookings">>]
\* a second INSERT of an email that is already there
UniqueFailed ==
    [kind |-> "IntegrityError",
     msg |-> <<"UNIQUE", "constraint", "failed", ":", "users.email">>]
NotNullFailed ==
    [kind |-> "IntegrityError",
     msg |-> <<"NOT", "NULL", "constraint", "failed", ":", "users.name">>]
DatabaseLocked ==
    [kind |-> "OperationalError", msg |-> <<"database", "is", "locked">>]
\* simulate_transient_failure
Simulated ==
    [kind |-> "SimulatedFailure", msg |-> <<"Simulated", "transient", "failure">>]

\* the ValueError of stream_users_in_batches, of lazy_paginate and of the
\* transactional wrapper
BatchSizeInvalid ==
    [kind |-> "ValueError",
     msg |-> <<"Batch", "size", "must", "be", "a", "positive", "integer">>]
PageSizeInvalid ==
    [kind |-> "ValueError",
     msg |-> <<"Page", "size", "must", "be", "a", "positive", "integer">>]
NoConnection ==
    [kind |-> "ValueError",
     msg |-> <<"Transaction", "decorator", "requires", "a", "database",
               "connection", "as", "first", "argument">>]

InvalidArguments == {BatchSizeInvalid, PageSizeInvalid, NoConnection}

Errors == {SyntaxOperational, NoSuchTable, UniqueFailed, NotNullFailed,
           DatabaseLocked, Simulated} \cup InvalidArguments

\* last_exception = None
None == [kind |-> "None", msg |-> <<>>]

\* the wrapped function returns its rows
Returns == [kind |-> "return", msg |-> <<>>]

\* what one invocation of the wrapped function does: it returns or raises
\* one of Errors
Outcomes == {Returns} \cup Errors

\* random.uniform(0.1, 0.5), in tenths of a second: the ends of the range
Jitters == {1, 5}

\* the delay arguments the module uses (1 and 2 seconds), in tenths
Delays == {10, 20}

\* the wrapper is called: the assignments before the for loop
RetryCall ==
    /\ rpc = "idle"
    /\ rpc' = "running"
    /\ last_exception' = None
    /\ current_delay' = delay
    /\ attempt' = 0
    /\ UNCHANGED <<retries, delay, outcomes, sleeps, result>>
    /\ UNCHANGED <<genVars, cacheVars, txnVars, connVars, ageVars, execVars, stackVars, poolVars, concVars>>

\* one pass of the for loop: func is invoked and does o; jitter is the
\* value random.uniform returns if the pass gets that far
RetryAttemptOneShort(o, jitter) ==
    /\ rpc = "running"
    /\ outcomes' = Append(outcomes, o)
    /\ UNCHANGED <<retries, delay>>
    /\ UNCHANGED <<genVars, cacheVars, txnVars, connVars, ageVars, execVars, stackVars, poolVars, concVars>>
    /\ IF o = Returns
       THEN /\ rpc' = "returned" /\ result' = "rows"
            /\ UNCHANGED <<attempt, current_delay, last_exception, sleeps>>
       ELSE /\ last_exception' = o
            /\ UNCHANGED result
            /\ IF ~IsRetryable(o) \/ attempt + 1 >= retries
               THEN /\ rpc' = "raised"
                    /\ UNCHANGED <<attempt, current_delay, sleeps>>
               ELSE /\ sleeps' = Append(sleeps, current_delay)
                    /\ current_delay' = current_delay * 2 + jitter
                    /\ attempt' = attempt + 1
                    /\ rpc' = "running"

RetryAttemptJitterPerWait(o, jitter) ==
    /\ rpc = "running"
    /\ outcomes' = Append(outcomes, o)
    /\ UNCHANGED <<retries, delay>>
    /\ UNCHANGED <<genVars, cacheVars, txnVars, connVars, ageVars, execVars, stackVars, poolVars, concVars>>
    /\ IF o = Returns
       THEN /\ rpc' = "returned" /\ result' = "rows"
            /\ UNCHANGED <<attempt, current_delay, last_exception, sleeps>>
       ELSE /\ last_exception' = o
            /\ UNCHANGED result
            /\ IF ~IsRetryable(o) \/ attempt = retries
               THEN /\ rpc' = "raised"
                    /\ UNCHANGED <<attempt, current_delay, sleeps>>
               ELSE /\ sleeps' = Append(sleeps, current_delay + jitter)
                    /\ current_delay' = current_delay * 2
                    /\ attempt' = attempt + 1
                    /\ rpc' = "running"

RetryAttemptOneMore(o, jitter) ==
    /\ rpc = "running"
    /\ outcomes' = Append(outcomes, o)
    /\ UNCHANGED <<retries, delay>>
    /\ UNCHANGED <<genVars, cacheVars, txnVars, connVars, ageVars, execVars, stackVars, poolVars, concVars>>
    /\ IF o = Returns
       THEN /\ rpc' = "returned" /\ result' = "rows"
            /\ UNCHANGED <<attempt, current_delay, last_exception, sleeps>>
       ELSE /\ last_exception' = o
            /\ UNCHANGED result
            /\ IF ~IsRetryable(o) \/ attempt = retries + 1
               THEN /\ rpc' = "raised"
                    /\ UNCHANGED <<attempt, current_delay, sleeps>>
               ELSE /\ sleeps' = Append(sleeps, current_delay)
                    /\ current_delay' = current_delay * 2 + jitter
                    /\ attempt' = attempt + 1
                    /\ rpc' = "running"

RetryAttempt(o, jitter) ==
    /\ rpc = "running"
    /\ outcomes' = Append(outcomes, o)
    /\ UNCHANGED <<retries, delay>>
    /\ UNCHANGED <<genVars, cacheVars, txnVars, connVars, ageVars, execVars, stackVars, poolVars, concVars>>
    /\ IF o = Returns
       THEN /\ rpc' = "returned" /\ result' = "rows"
            /\ UNCHANGED <<attempt, current_delay, last_exception, sleeps>>
       ELSE /\ last_exception' = o
            /\ UNCHANGED result
            /\ IF ~IsRetryable(o) \/ attempt = retries
               THEN /\ rpc' = "raised"
                    /\ UNCHANGED <<attempt, current_delay, sleeps>>
               ELSE /\ sleeps' = Append(sleeps, current_delay)
                    /\ current_delay' = current_delay * 2 + jitter
                    /\ attempt' = attempt + 1
                    /\ rpc' = "running"

InitRetry ==
    /\ retries \in 0..MaxRetries /\ delay \in Delays
    /\ rpc = "idle" /\ attempt = 0 /\ current_delay = 0
    /\ last_exception = None /\ outcomes = <<>> /\ sleeps = <<>>
    /\ result = "none"
    /\ GenIdle /\ CacheIdle /\ TxnIdle /\ ConnIdle /\ AgeIdle /\ ExecIdle /\ StackIdle /\ PoolIdle /\ ConcIdle

NextRetry ==
    \/ RetryCall
    \/ \E o \in Outcomes, jitter \in Jitters : RetryAttempt(o, jitter)

SpecRetry == InitRetry /\ [][NextRetry]_vars

\* ---- cache_query (4-cache_query.py) ---------------------------------------
\* Python values a caller passes: an int, a str, a list or a tuple of ints.
\* items holds the digits of an int, the text of a str, or the elements.
PyInt(d) == [type |-> "int", items |-> <<d>>]
PyStr(t) == [type |-> "str", items |-> <<t>>]
PyList(xs) == [type |-> "list", items |-> xs]
PyTuple(xs) == [type |-> "tuple", items |-> xs]

\* the argument values of the model: 1, "1", [1, 2] and (1, 2)
ArgValues == {PyInt("1"), PyStr("1"), PyList(<<"1", "2">>), PyTuple(<<"1", "2">>)}

RECURSIVE Join(_, _)
Join(xs, sep) ==
    IF xs = <<>> THEN <<>>
    ELSE IF Len(xs) = 1 THEN <<xs[1]>>
    ELSE <<xs[1], sep>> \o Join(Tail(xs), sep)

\* json.dumps of one value, as the sequence of its tokens: an int prints its
\* digits, a str is quoted, a list and a tuple both print as a JSON array
JsonValue(x) ==
    CASE x.type = "int" -> x.items
      [] x.type = "str" -> <<"\"">> \o x.items \o <<"\"">>
      [] OTHER -> <<"[">> \o Join(x.items, ",") \o <<"]">>

RECURSIVE JsonArgs(_)
JsonArgs(xs) ==
    IF xs = <<>> THEN <<>>
    ELSE IF Len(xs) = 1 THEN JsonValue(xs[1])
    ELSE JsonValue(xs[1]) \o <<",">> \o JsonArgs(Tail(xs))

\* json.dumps(key_data, sort_keys=True, default=str) with empty kwargs
JsonDumps(func_name, relevant_args) ==
    <<"{", "\"args\"", ":", "[">> \o JsonArgs(relevant_args)
      \o <<"]", ",", "\"function\"", ":", "\"", func_name, "\"", ",",
           "\"kwargs\"", ":", "{", "}", "}">>

\* hashlib.md5(...).hexdigest(): different strings get different digests
Md5(key_string) == [md5 |-> key_string]

\* _generate_cache_key(func_name, args, kwargs): args[0] is the connection
GenerateCacheKey(func_name, args) ==
    LET relevant_args == IF args # <<>> THEN Tail(args) ELSE <<>> IN
    Md5(JsonDumps(func_name, relevant_args))

\* CacheEntry.is_expired(ttl_seconds)
IsExpired(entry, ttl_seconds) ==
    IF ttl_seconds <= 0 THEN FALSE
    ELSE now > entry.timestamp + ttl_seconds

\* CacheEntry(result, query_hash) at the current time
CacheEntry(res) == [result |-> res, timestamp |-> now, hit_count |-> 0]

\* query_cache[key] = entry
Put(cache, key, entry) ==
    [k \in (DOMAIN cache) \cup {key} |-> IF k = key THEN entry ELSE cache[k]]

\* del query_cache[key]
Del(cache, key) == [k \in (DOMAIN cache) \ {key} |-> cache[k]]

\* the decorated functions of the module
FuncNames == {"fetch_users_with_cache"}

CacheCallHitUncounted(func_name, a, ok) ==
    /\ Len(callLog) < MaxCalls
    /\ LET args == <<[type |-> "conn", items |-> <<Len(callLog) + 1>>], a>>
           cache_key == GenerateCacheKey(func_name, args)
           present == cache_key \in DOMAIN query_cache
           hit == present /\ ~IsExpired(query_cache[cache_key], ttl)
           afterLookup == IF present /\ ~hit THEN Del(query_cache, cache_key)
                          ELSE query_cache
       IN IF hit
          THEN /\ query_cache' = query_cache
               /\ callLog' = Append(callLog,
                     [func |-> func_name, arg |-> a, time |-> now,
                      invoked |-> FALSE, raised |-> FALSE,
                      returned |-> query_cache[cache_key].result])
          ELSE IF ok
          THEN /\ query_cache' = Put(afterLookup, cache_key, CacheEntry(a))
               /\ callLog' = Append(callLog,
                     [func |-> func_name, arg |-> a, time |-> now,
                      invoked |-> TRUE, raised |-> FALSE, returned |-> a])
          ELSE /\ query_cache' = afterLookup
               /\ callLog' = Append(callLog,
                     [func |-> func_name, arg |-> a, time |-> now,
                      invoked |-> TRUE, raised |-> TRUE, returned |-> a])
    /\ UNCHANGED <<now, ttl, clearLog>>
    /\ UNCHANGED <<genVars, retryVars, txnVars, connVars, ageVars, execVars, stackVars, poolVars, concVars>>

CacheCallStoresFailure(func_name, a, ok) ==
    /\ Len(callLog) < MaxCalls
    /\ LET args == <<[type |-> "conn", items |-> <<Len(callLog) + 1>>], a>>
           cache_key == GenerateCacheKey(func_name, args)
           present == cache_key \in DOMAIN query_cache
           hit == present /\ ~IsExpired(query_cache[cache_key], ttl)
           afterLookup == IF present /\ ~hit THEN Del(query_cache, cache_key)
                          ELSE query_cache
       IN IF hit
          THEN /\ query_cache' =
                     [query_cache EXCEPT ![cache_key].hit_count = @ + 1]
               /\ callLog' = Append(callLog,
                     [func |-> func_name, arg |-> a, time |-> now,
                      invoked |-> FALSE, raised |-> FALSE,
                      returned |-> query_cache[cache_key].result])
          ELSE IF ok
          THEN /\ query_cache' = Put(afterLookup, cache_key, CacheEntry(a))
               /\ callLog' = Append(callLog,
                     [func |-> func_name, arg |-> a, time |-> now,
                      invoked |-> TRUE, raised |-> FALSE, returned |-> a])
          ELSE /\ query_cache' = Put(afterLookup, cache_key, CacheEntry(a))
               /\ callLog' = Append(callLog,
                     [func |-> func_name, arg |-> a, time |-> now,
                      invoked |-> TRUE, raised |-> TRUE, returned |-> a])
    /\ UNCHANGED <<now, ttl, clearLog>>
    /\ UNCHANGED <<genVars, retryVars, txnVars, connVars, ageVars, execVars, stackVars, poolVars, concVars>>

\* one call of the wrapper, single-threaded: func_name is called with the
\* connection of this call and the argument a; if the wrapped function is
\* invoked it returns the rows for a (ok) or raises
CacheCall(func_name, a, ok) ==
    /\ Len(callLog) < MaxCalls
    /\ LET args == <<[type |-> "conn", items |-> <<Len(callLog) + 1>>], a>>
           cache_key == GenerateCacheKey(func_name, args)
           present == cache_key \in DOMAIN query_cache
           hit == present /\ ~IsExpired(query_cache[cache_key], ttl)
           afterLookup == IF present /\ ~hit THEN Del(query_cache, cache_key)
                          ELSE query_cache
       IN IF hit
          THEN /\ query_cache' =
                     [query_cache EXCEPT ![cache_key].hit_count = @ + 1]
               /\ callLog' = Append(callLog,
                     [func |-> func_name, arg |-> a, time |-> now,
                      invoked |-> FALSE, raised |-> FALSE,
                      returned |-> query_cache[cache_key].result])
          ELSE IF ok
          THEN /\ query_cache' = Put(afterLookup, cache_key, CacheEntry(a))
               /\ callLog' = Append(callLog,
                     [func |-> func_name, arg |-> a, time |-> now,
                      invoked |-> TRUE, raised |-> FALSE, returned |-> a])
          ELSE /\ query_cache' = afterLookup
               /\ callLog' = Append(callLog,
                     [func |-> func_name, arg |-> a, time |-> now,
                      invoked |-> TRUE, raised |-> TRUE, returned |-> a])
    /\ UNCHANGED <<now, ttl, clearLog>>
    /\ UNCHANGED <<genVars, retryVars, txnVars, connVars, ageVars, execVars, stackVars, poolVars, concVars>>

\* a second passes
Tick ==
    /\ now < MaxTime
    /\ now' = now + 1
    /\ UNCHANGED <<query_cache, ttl, callLog, clearLog>>
    /\ UNCHANGED <<genVars, retryVars, txnVars, connVars, ageVars, execVars, stackVars, poolVars, concVars>>

\* the value of a call that ends without a return statement
PyNone == [type |-> "NoneType", value |-> 0]

\* clear_cache(): cleared_count = len(query_cache), query_cache.clear(),
\* the count is printed; the function has no return statement
ClearCacheCountsAfter ==
    /\ Len(clearLog) < MaxClears
    /\ query_cache' = <<>>
    /\ clearLog' = Append(clearLog,
          [printed |-> Cardinality(DOMAIN query_cache'), returned |-> PyNone])
    /\ UNCHANGED <<now, ttl, callLog>>
    /\ UNCHANGED <<genVars, retryVars, txnVars, connVars, ageVars, execVars, stackVars, poolVars, concVars>>

ClearCache ==
    /\ Len(clearLog) < MaxClears
    /\ LET cleared_count == Cardinality(DOMAIN query_cache) IN
       /\ query_cache' = <<>>
       /\ clearLog' = Append(clearLog,
             [printed |-> cleared_count, returned |-> PyNone])
    /\ UNCHANGED <<now, ttl, callLog>>
    /\ UNCHANGED <<genVars, retryVars, txnVars, connVars, ageVars, execVars, stackVars, poolVars, concVars>>

\* the ttl arguments of the model: 0 (never expires) and 1 second
Ttls == {0, 1}

InitCache ==
    /\ query_cache = <<>> /\ now = 0 /\ ttl \in Ttls /\ callLog = <<>>
    /\ clearLog = <<>>
    /\ GenIdle /\ RetryIdle /\ TxnIdle /\ ConnIdle /\ AgeIdle /\ ExecIdle /\ StackIdle /\ PoolIdle /\ ConcIdle

NextCache ==
    \/ \E f \in FuncNames, a \in ArgValues, ok \in BOOLEAN : CacheCall(f, a, ok)
    \/ Tick
    \/ ClearCache

SpecCache == InitCache /\ [][NextCache]_vars

\* ---- with_db_connection and transactional (2-transactional.py) ------------
\* What the wrapped operation of a call is going to do: it performs `writes`
\* INSERT/UPDATE statements and returns (failKind none), or raises after
\* failAt of them an Exception (op) or a BaseException such as
\* KeyboardInterrupt (opBase); begin and commit make conn.execute('BEGIN')
\* or conn.commit() raise sqlite3.OperationalError.
Plans ==
    { [call |-> c, writes |-> n, failKind |-> k, failAt |-> a] :
        c \in 1..MaxTxnCalls, n \in 0..MaxWrites,
        k \in {"none", "begin", "commit", "op", "opBase"},
        a \in 0..MaxWrites }

WellFormed(p) ==
    IF p.failKind \in {"op", "opBase"} THEN p.failAt <= p.writes
    ELSE IF p.failKind = "begin" THEN p.failAt = 0
    ELSE p.failAt = p.writes

\* the i-th write of a call
Write(c, i) == <<c, i>>

Writes(p) == {Write(p.call, i) : i \in 1..p.writes}

Range(seq) == {seq[i] : i \in 1..Len(seq)}

\* with_db_connection.wrapper up to func(conn, ...), and
\* transactional.wrapper up to func(*args, **kwargs): the connection is
\* opened and BEGIN is executed
TxnCall(p) ==
    /\ tpc = "idle" /\ plan.call < MaxTxnCalls
    /\ p.call = plan.call + 1 /\ WellFormed(p)
    /\ plan' = p
    /\ before' = store
    /\ UNCHANGED store
    /\ UNCHANGED <<genVars, cacheVars, retryVars, connVars, ageVars, execVars, stackVars, poolVars, concVars>>
    /\ IF p.failKind = "begin"
       THEN \* BEGIN raises: except Exception rolls back and re-raises,
            \* the finally of with_db_connection closes
            /\ tlog' = <<"connect", "rollback", "close">>
            /\ pending' = <<>> /\ inTxn' = FALSE
            /\ tconn' = "closed" /\ tpc' = "idle"
            /\ texc' = "OperationalError"
       ELSE /\ tlog' = <<"connect", "BEGIN">>
            /\ pending' = <<>> /\ inTxn' = TRUE
            /\ tconn' = "open" /\ tpc' = "body"
            /\ texc' = "none"

\* conn = args[0] if args else None
FirstArg(args) == IF args # <<>> THEN args[1] ELSE "None"

\* positional arguments of a call that passes no connection handle
BareArgs == {<<>>, <<"None">>}

\* transactional.wrapper called directly, without with_db_connection above
\* it: the test of conn comes first and raises ValueError
TxnCallBareUnchecked(args) ==
    /\ tpc = "idle" /\ plan.call < MaxTxnCalls
    /\ FirstArg(args) = "None"
    /\ plan' = [call |-> plan.call + 1, writes |-> 0, failKind |-> "noconn",
                failAt |-> 0]
    /\ before' = store
    /\ tlog' = <<>> /\ texc' = "AttributeError"
    /\ pending' = <<>> /\ inTxn' = FALSE /\ tconn' = "none" /\ tpc' = "idle"
    /\ UNCHANGED store
    /\ UNCHANGED <<genVars, cacheVars, retryVars, connVars, ageVars, execVars, stackVars, poolVars, concVars>>

TxnCallBare(args) ==
    /\ tpc = "idle" /\ plan.call < MaxTxnCalls
    /\ FirstArg(args) = "None"
    /\ plan' = [call |-> plan.call + 1, writes |-> 0, failKind |-> "noconn",
                failAt |-> 0]
    /\ before' = store
    /\ tlog' = <<>> /\ texc' = "ValueError"
    /\ pending' = <<>> /\ inTxn' = FALSE /\ tconn' = "none" /\ tpc' = "idle"
    /\ UNCHANGED store
    /\ UNCHANGED <<genVars, cacheVars, retryVars, connVars, ageVars, execVars, stackVars, poolVars, concVars>>

\* the wrapped operation executes its next statement
TxnWrite ==
    /\ tpc = "body" /\ Len(pending) < plan.failAt
    /\ pending' = Append(pending, Write(plan.call, Len(pending) + 1))
    /\ tlog' = Append(tlog, "write")
    /\ UNCHANGED <<store, inTxn, tpc, tconn, plan, texc, before>>
    /\ UNCHANGED <<genVars, cacheVars, retryVars, connVars, ageVars, execVars, stackVars, poolVars, concVars>>

\* the wrapped operation raises
TxnRaiseCommits ==
    /\ tpc = "body" /\ Len(pending) = plan.failAt
    /\ plan.failKind \in {"op", "opBase"}
    /\ store' = store \cup Range(pending)
    /\ tlog' = tlog \o <<"commit", "close">>
    /\ texc' = (IF plan.failKind = "op" THEN "Exception" ELSE "BaseException")
    /\ pending' = <<>> /\ inTxn' = FALSE
    /\ tconn' = "closed" /\ tpc' = "idle"
    /\ UNCHANGED <<plan, before>>
    /\ UNCHANGED <<genVars, cacheVars, retryVars, connVars, ageVars, execVars, stackVars, poolVars, concVars>>

TxnRaise ==
    /\ tpc = "body" /\ Len(pending) = plan.failAt
    /\ plan.failKind \in {"op", "opBase"}
    /\ IF plan.failKind = "op"
       THEN \* except Exception: conn.rollback(), raise; then conn.close()
            /\ tlog' = tlog \o <<"rollback", "close">>
            /\ texc' = "Exception"
       ELSE \* not an Exception: only the finally of with_db_connection
            \* runs, and closing the connection discards the open transaction
            /\ tlog' = Append(tlog, "close")
            /\ texc' = "BaseException"
    /\ pending' = <<>> /\ inTxn' = FALSE
    /\ tconn' = "closed" /\ tpc' = "idle"
    /\ UNCHANGED <<store, plan, before>>
    /\ UNCHANGED <<genVars, cacheVars, retryVars, connVars, ageVars, execVars, stackVars, poolVars, concVars>>

\* the wrapped operation returns: conn.commit(), then conn.close()
TxnReturnNoCommit ==
    /\ tpc = "body" /\ Len(pending) = plan.failAt
    /\ plan.failKind \in {"none", "commit"}
    /\ store' = store
    /\ tlog' = Append(tlog, "close")
    /\ texc' = "none"
    /\ pending' = <<>> /\ inTxn' = FALSE
    /\ tconn' = "closed" /\ tpc' = "idle"
    /\ UNCHANGED <<plan, before>>
    /\ UNCHANGED <<genVars, cacheVars, retryVars, connVars, ageVars, execVars, stackVars, poolVars, concVars>>

TxnReturn ==
    /\ tpc = "body" /\ Len(pending) = plan.failAt
    /\ plan.failKind \in {"none", "commit"}
    /\ IF plan.failKind = "none"
       THEN /\ store' = store \cup Range(pending)
            /\ tlog' = tlog \o <<"commit", "close">>
            /\ texc' = "none"
       ELSE \* commit raises: except Exception rolls back and re-raises
            /\ store' = store
            /\ tlog' = tlog \o <<"commit", "rollback", "close">>
            /\ texc' = "OperationalError"
    /\ pending' = <<>> /\ inTxn' = FALSE
    /\ tconn' = "closed" /\ tpc' = "idle"
    /\ UNCHANGED <<plan, before>>
    /\ UNCHANGED <<genVars, cacheVars, retryVars, connVars, ageVars, execVars, stackVars, poolVars, concVars>>

InitTxn ==
    /\ store = {} /\ pending = <<>> /\ inTxn = FALSE /\ tpc = "idle"
    /\ tconn = "none" /\ tlog = <<>> /\ texc = "none" /\ before = {}
    /\ plan = [call |-> 0, writes |-> 0, failKind |-> "none", failAt |-> 0]
    /\ GenIdle /\ CacheIdle /\ RetryIdle /\ ConnIdle /\ AgeIdle /\ ExecIdle /\ StackIdle /\ PoolIdle /\ ConcIdle

NextTxn ==
    \/ \E p \in Plans : TxnCall(p)
    \/ \E args \in BareArgs : TxnCallBare(args)
    \/ TxnWrite
    \/ TxnRaise
    \/ TxnReturn

SpecTxn == InitTxn /\ [][NextTxn]_vars

\* ---- with_db_connection (1-with_db_connection.py) -------------------------
\* wrapper up to func(conn, ...): sqlite3.connect either raises, and the call
\* is over, or returns the connection of this call
WdcEnter(connected) ==
    /\ wpc = "idle" /\ Len(wlog) < MaxCalls
    /\ IF connected
       THEN /\ wconns' = Append(wconns, [state |-> "open", closes |-> 0])
            /\ wpc' = "body"
            /\ UNCHANGED wlog
       ELSE /\ wlog' = Append(wlog, [conn |-> 0, func |-> "not called",
                                    outcome |-> "OperationalError"])
            /\ UNCHANGED <<wpc, wconns>>
    /\ UNCHANGED <<genVars, cacheVars, retryVars, txnVars, ageVars, execVars, stackVars, poolVars, concVars>>

\* func returns or raises; the except clause re-raises, the finally clause
\* closes the connection
WdcExitNoFinally(o) ==
    /\ wpc = "body"
    /\ wconns' = (IF o = "return"
                  THEN [wconns EXCEPT ![Len(wconns)] =
                           [state |-> "closed", closes |-> @.closes + 1]]
                  ELSE wconns)
    /\ wlog' = Append(wlog, [conn |-> Len(wconns), func |-> o, outcome |-> o])
    /\ wpc' = "idle"
    /\ UNCHANGED <<genVars, cacheVars, retryVars, txnVars, ageVars, execVars, stackVars, poolVars, concVars>>

WdcExit(o) ==
    /\ wpc = "body"
    /\ wconns' = [wconns EXCEPT ![Len(wconns)] =
                     [state |-> "closed", closes |-> @.closes + 1]]
    /\ wlog' = Append(wlog, [conn |-> Len(wconns), func |-> o, outcome |-> o])
    /\ wpc' = "idle"
    /\ UNCHANGED <<genVars, cacheVars, retryVars, txnVars, ageVars, execVars, stackVars, poolVars, concVars>>

\* what the wrapped function does
FuncOutcomes == {"return", "Exception", "BaseException"}

InitConn ==
    /\ wpc = "idle" /\ wconns = <<>> /\ wlog = <<>>
    /\ GenIdle /\ CacheIdle /\ RetryIdle /\ TxnIdle /\ AgeIdle /\ ExecIdle /\ StackIdle /\ PoolIdle /\ ConcIdle

NextConn ==
    \/ \E connected \in BOOLEAN : WdcEnter(connected)
    \/ \E o \in FuncOutcomes : WdcExit(o)

SpecConn == InitConn /\ [][NextConn]_vars

\* ---- the decorators stacked (python-decorators-0x01) ----------------------
Wrappers == {"with_db_connection", "transactional", "retry_on_failure",
             "cache_query"}

\* every stack of 1..MaxDepth different decorators
Stacks ==
    UNION { {st \in [1..n -> Wrappers] :
                \A i, j \in 1..n : i # j => st[i] # st[j]} : n \in 1..MaxDepth }

\* retries argument of retry_on_failure in a stack
StackRetries == 1

\* what an invocation of the decorated function does: it returns, raises a
\* retryable error or raises a non-retryable one
StackOutcomes == {Returns, Simulated, UniqueFailed}

Down == [dir |-> "down", val |-> None]

Up(o) == [dir |-> "up", val |-> o]

\* the decorated function is called
StackCall ==
    /\ sig.dir = "idle" /\ scalls < MaxStackCalls
    /\ sig' = Down /\ frames' = <<>> /\ sops' = <<>> /\ scleanup' = <<>>
    /\ UNCHANGED <<stack, scached, scalls, sresult>>
    /\ UNCHANGED <<genVars, cacheVars, retryVars, txnVars, connVars, ageVars,
                   execVars, poolVars, concVars>>

\* the call reaches the next wrapper of the stack, which runs up to its
\* call of func: with_db_connection connects, transactional executes BEGIN,
\* retry_on_failure starts its loop, cache_query looks the key up and
\* returns the cached result on a hit
StackEnter ==
    /\ sig.dir = "down" /\ Len(frames) < Len(stack)
    /\ LET w == stack[Len(frames) + 1] IN
       IF w = "cache_query" /\ scached
       THEN /\ sig' = Up(Returns)
            /\ UNCHANGED <<frames, scleanup>>
       ELSE /\ frames' = Append(frames, 0)
            /\ sig' = Down
            /\ scleanup' = (IF w = "with_db_connection"
                            THEN Append(scleanup, "connect")
                            ELSE IF w = "transactional"
                            THEN Append(scleanup, "BEGIN")
                            ELSE scleanup)
    /\ UNCHANGED <<stack, sops, scached, scalls, sresult>>
    /\ UNCHANGED <<genVars, cacheVars, retryVars, txnVars, connVars, ageVars,
                   execVars, poolVars, concVars>>

\* the innermost wrapper invokes the decorated function, which does o
StackOp(o) ==
    /\ sig.dir = "down" /\ Len(frames) = Len(stack)
    /\ sops' = Append(sops, o)
    /\ sig' = Up(o)
    /\ UNCHANGED <<stack, frames, scleanup, scached, scalls, sresult>>
    /\ UNCHANGED <<genVars, cacheVars, retryVars, txnVars, connVars, ageVars,
                   execVars, poolVars, concVars>>

\* func returned or raised in the innermost running wrapper, which runs to
\* its own return or raise, or, for retry_on_failure, to its next call of
\* func
StackLeaveSwallows ==
    /\ sig.dir = "up" /\ frames # <<>>
    /\ LET w == stack[Len(frames)]
           attempt_ == frames[Len(frames)]
           o == sig.val
           pop == SubSeq(frames, 1, Len(frames) - 1)
       IN
       IF w = "retry_on_failure" /\ o # Returns /\ IsRetryable(o)
          /\ attempt_ # StackRetries
       THEN /\ frames' = [frames EXCEPT ![Len(frames)] = attempt_ + 1]
            /\ sig' = Down
            /\ UNCHANGED <<scleanup, scached>>
       ELSE /\ frames' = pop
            /\ sig' = (IF w = "cache_query" THEN Up(Returns) ELSE Up(o))
            /\ scached' = (scached \/ (w = "cache_query" /\ o = Returns))
            /\ scleanup' =
                  (IF w = "with_db_connection" THEN Append(scleanup, "close")
                   ELSE IF w = "transactional"
                   THEN Append(scleanup, IF o = Returns THEN "commit"
                                         ELSE "rollback")
                   ELSE scleanup)
    /\ UNCHANGED <<stack, sops, scalls, sresult>>
    /\ UNCHANGED <<genVars, cacheVars, retryVars, txnVars, connVars, ageVars,
                   execVars, poolVars, concVars>>

StackLeaveCloseOnReturn ==
    /\ sig.dir = "up" /\ frames # <<>>
    /\ LET w == stack[Len(frames)]
           attempt_ == frames[Len(frames)]
           o == sig.val
           pop == SubSeq(frames, 1, Len(frames) - 1)
       IN
       IF w = "retry_on_failure" /\ o # Returns /\ IsRetryable(o)
          /\ attempt_ # StackRetries
       THEN /\ frames' = [frames EXCEPT ![Len(frames)] = attempt_ + 1]
            /\ sig' = Down
            /\ UNCHANGED <<scleanup, scached>>
       ELSE /\ frames' = pop
            /\ sig' = Up(o)
            /\ scached' = (scached \/ (w = "cache_query" /\ o = Returns))
            /\ scleanup' =
                  (IF w = "with_db_connection"
                   THEN (IF o = Returns THEN Append(scleanup, "close")
                         ELSE scleanup)
                   ELSE IF w = "transactional"
                   THEN Append(scleanup, IF o = Returns THEN "commit"
                                         ELSE "rollback")
                   ELSE scleanup)
    /\ UNCHANGED <<stack, sops, scalls, sresult>>
    /\ UNCHANGED <<genVars, cacheVars, retryVars, txnVars, connVars, ageVars,
                   execVars, poolVars, concVars>>

StackLeave ==
    /\ sig.dir = "up" /\ frames # <<>>
    /\ LET w == stack[Len(frames)]
           attempt_ == frames[Len(frames)]
           o == sig.val
           pop == SubSeq(frames, 1, Len(frames) - 1)
       IN
       IF w = "retry_on_failure" /\ o # Returns /\ IsRetryable(o)
          /\ attempt_ # StackRetries
       THEN \* time.sleep, the backoff, and the next pass of the loop
            /\ frames' = [frames EXCEPT ![Len(frames)] = attempt_ + 1]
            /\ sig' = Down
            /\ UNCHANGED <<scleanup, scached>>
       ELSE \* return result, or raise / raise e after the handler
            /\ frames' = pop
            /\ sig' = Up(o)
            /\ scached' = (scached \/ (w = "cache_query" /\ o = Returns))
            /\ scleanup' =
                  (IF w = "with_db_connection" THEN Append(scleanup, "close")
                   ELSE IF w = "transactional"
                   THEN Append(scleanup, IF o = Returns THEN "commit"
                                         ELSE "rollback")
                   ELSE scleanup)
    /\ UNCHANGED <<stack, sops, scalls, sresult>>
    /\ UNCHANGED <<genVars, cacheVars, retryVars, txnVars, connVars, ageVars,
                   execVars, poolVars, concVars>>

\* the outermost wrapper has returned or raised: the caller has the outcome
StackDone ==
    /\ sig.dir = "up" /\ frames = <<>>
    /\ sresult' = sig.val
    /\ scalls' = scalls + 1
    /\ sig' = [dir |-> "idle", val |-> None]
    /\ UNCHANGED <<stack, frames, sops, scleanup, scached>>
    /\ UNCHANGED <<genVars, cacheVars, retryVars, txnVars, connVars, ageVars,
                   execVars, poolVars, concVars>>

InitStack ==
    /\ stack \in Stacks /\ frames = <<>>
    /\ sig = [dir |-> "idle", val |-> None]
    /\ sops = <<>> /\ scleanup = <<>> /\ scached = FALSE /\ scalls = 0
    /\ sresult = None
    /\ GenIdle /\ CacheIdle /\ RetryIdle /\ TxnIdle /\ ConnIdle /\ AgeIdle /\ ExecIdle /\ PoolIdle /\ ConcIdle

NextStack ==
    \/ StackCall
    \/ StackEnter
    \/ \E o \in StackOutcomes : StackOp(o)
    \/ StackLeave
    \/ StackDone

SpecStack == InitStack /\ [][NextStack]_vars

\* ---- ExecuteQuery (1-execute.py) ------------------------------------------
\* what may fail in __enter__: sqlite3.connect, connection.cursor(),
\* cursor.execute (invalid SQL, missing table) or the fetch
EnterFaults == {"none", "connect", "cursor", "execute", "fetch"}

\* a with statement on a new ExecuteQuery(query, parameters): __init__ and
\* __enter__.  When __enter__ raises, the with statement is left at once and
\* __exit__ is not called.
ExecEnter(f) ==
    /\ xpc = "idle" /\ Len(xlog) < MaxUses
    /\ UNCHANGED <<genVars, cacheVars, retryVars, txnVars, connVars, ageVars, stackVars, poolVars, concVars>>
    /\ IF f = "connect"
       THEN /\ self_connection' = "None" /\ self_cursor' = "None"
            /\ UNCHANGED <<xpc, xres>>
            /\ xlog' = Append(xlog, [use |-> 0, enter |-> f, body |-> "not run",
                                     exit_called |-> FALSE, raised |-> TRUE])
       ELSE IF f = "none"
       THEN /\ self_connection' = "set" /\ self_cursor' = "set"
            /\ xres' = Append(xres, [conn |-> "open", cur |-> "open"])
            /\ xpc' = "body"
            /\ UNCHANGED xlog
       ELSE /\ self_connection' = "set"
            /\ self_cursor' = (IF f = "cursor" THEN "None" ELSE "set")
            /\ xres' = Append(xres, [conn |-> "open",
                                     cur |-> IF f = "cursor" THEN "none"
                                             ELSE "open"])
            /\ UNCHANGED xpc
            /\ xlog' = Append(xlog, [use |-> Len(xres) + 1, enter |-> f,
                                     body |-> "not run",
                                     exit_called |-> FALSE, raised |-> TRUE])

\* what the body of the with statement does
BodyOutcomes == {"return", "Exception"}

\* the with block ends and __exit__ runs: the cursor and the connection
\* are closed and the attributes reset; it returns False, so an exception of
\* the body goes on to the caller
ExecExit(o) ==
    /\ xpc = "body"
    /\ xres' = [xres EXCEPT ![Len(xres)] =
                   [conn |-> IF self_connection = "set" THEN "closed" ELSE @.conn,
                    cur |-> IF self_cursor = "set" THEN "closed" ELSE @.cur]]
    /\ self_connection' = "None" /\ self_cursor' = "None"
    /\ xlog' = Append(xlog, [use |-> Len(xres), enter |-> "none", body |-> o,
                             exit_called |-> TRUE, raised |-> (o # "return")])
    /\ xpc' = "idle"
    /\ UNCHANGED <<genVars, cacheVars, retryVars, txnVars, connVars, ageVars, stackVars, poolVars, concVars>>

InitExec ==
    /\ xpc = "idle" /\ self_connection = "None" /\ self_cursor = "None"
    /\ xres = <<>> /\ xlog = <<>>
    /\ GenIdle /\ CacheIdle /\ RetryIdle /\ TxnIdle /\ ConnIdle /\ AgeIdle /\ StackIdle /\ PoolIdle /\ ConcIdle

NextExec ==
    \/ \E f \in EnterFaults : ExecEnter(f)
    \/ \E o \in BodyOutcomes : ExecExit(o)

SpecExec == InitExec /\ [][NextExec]_vars

\* ---- DatabaseConnectionPool (0-databaseconnection.py) ----------------------
\* pool sizes a pool is constructed with
PoolSizes == {1, 2, 3}

\* __enter__ of a with statement on the pool object, also inside the body of
\* another with statement on it.  At the limit it prints a warning and goes
\* on.  When sqlite3.connect raises, the counter is taken back and the with
\* statement is left without __exit__.
PoolEnter(connected) ==
    /\ penters < MaxPoolUses
    /\ penters' = penters + 1
    /\ IF connected
       THEN /\ active_connections' = active_connections + 1
            /\ connection_history' =
                   Append(connection_history,
                          [id |-> Len(connection_history) + 1,
                           status |-> "active", had_error |-> FALSE])
            /\ current_connection_id' = Len(connection_history) + 1
            /\ pconns' = Append(pconns, "open")
            /\ pblocks' = Append(pblocks, Len(pconns) + 1)
       ELSE /\ active_connections' = (active_connections + 1) - 1
            /\ UNCHANGED <<connection_history, current_connection_id, pconns,
                           pblocks>>
    /\ UNCHANGED pool_size
    /\ UNCHANGED <<genVars, cacheVars, retryVars, txnVars, connVars, ageVars, execVars, stackVars, concVars>>

\* the entry of connection_history the loop of __exit__ updates: the first
\* one whose id is _current_connection_id (0 when there is none)
HistoryIndex(id) ==
    IF \E i \in 1..Len(connection_history) : connection_history[i].id = id
    THEN CHOOSE i \in 1..Len(connection_history) :
             /\ connection_history[i].id = id
             /\ \A j \in 1..(i - 1) : connection_history[j].id # id
    ELSE 0

\* the innermost with block ends and __exit__ runs: the counter goes down
\* and the history entry of _current_connection_id is marked closed.  The
\* connection object itself was handed to the block and is not touched.
PoolExit(o) ==
    /\ pblocks # <<>>
    /\ active_connections' = active_connections - 1
    /\ LET i == HistoryIndex(current_connection_id)
       IN  connection_history' =
               IF current_connection_id # 0 /\ i # 0
               THEN [connection_history EXCEPT ![i] =
                        [id |-> @.id, status |-> "closed",
                         had_error |-> (o # "return")]]
               ELSE connection_history
    /\ pblocks' = SubSeq(pblocks, 1, Len(pblocks) - 1)
    /\ UNCHANGED <<pool_size, current_connection_id, pconns, penters>>
    /\ UNCHANGED <<genVars, cacheVars, retryVars, txnVars, connVars, ageVars, execVars, stackVars, concVars>>

InitPool ==
    /\ pool_size \in PoolSizes
    /\ active_connections = 0 /\ connection_history = <<>>
    /\ current_connection_id = 0 /\ pconns = <<>> /\ pblocks = <<>>
    /\ penters = 0
    /\ GenIdle /\ CacheIdle /\ RetryIdle /\ TxnIdle /\ ConnIdle /\ AgeIdle /\ ExecIdle /\ StackIdle /\ ConcIdle

NextPool ==
    \/ \E connected \in BOOLEAN : PoolEnter(connected)
    \/ \E o \in BodyOutcomes : PoolExit(o)

SpecPool == InitPool /\ [][NextPool]_vars

\* ---- cache_query under two threads (4-cache_query.py) ---------------------
\* Both threads call the same decorated function with the same arguments, so
\* with the same cache_key; query_cache is a module global and the wrapper
\* takes no lock.  A thread can be preempted between any two of the steps.
Threads == {1, 2}

\* KeyError of a dict operation on a key that is not there
KeyErrorRaised == [kind |-> "KeyError", msg |-> <<"cache_key">>]

\* the wrapper ends in thread t and gives its caller outcome o
ConcFinish(t, how, o, obj) ==
    /\ clog' = Append(clog, [thread |-> t, how |-> how, outcome |-> o,
                             entry |-> obj])
    /\ cpc' = [cpc EXCEPT ![t] = "idle"]
    /\ cache_entry' = [cache_entry EXCEPT ![t] = 0]

\* thread t calls the decorated function
ConcCall(t) ==
    /\ cpc[t] = "idle" /\ ccalls[t] < MaxThreadCalls
    /\ ccalls' = [ccalls EXCEPT ![t] = @ + 1]
    /\ cpc' = [cpc EXCEPT ![t] = "lookup"]
    /\ UNCHANGED <<cache_entry, loaded, cresult, objects, cstore, cnow, cttl,
                   invocations, clog>>
    /\ UNCHANGED <<genVars, cacheVars, retryVars, txnVars, connVars, ageVars, execVars, stackVars, poolVars>>

\* if cache_key in query_cache
ConcLookup(t) ==
    /\ cpc[t] = "lookup"
    /\ cpc' = [cpc EXCEPT ![t] = IF cstore # 0 THEN "get" ELSE "invoke"]
    /\ UNCHANGED <<cache_entry, loaded, cresult, ccalls, objects, cstore,
                   cnow, cttl, invocations, clog>>
    /\ UNCHANGED <<genVars, cacheVars, retryVars, txnVars, connVars, ageVars, execVars, stackVars, poolVars>>

\* cache_entry = query_cache[cache_key]
ConcGet(t) ==
    /\ cpc[t] = "get"
    /\ IF cstore # 0
       THEN /\ cache_entry' = [cache_entry EXCEPT ![t] = cstore]
            /\ cpc' = [cpc EXCEPT ![t] = "expiry"]
            /\ UNCHANGED clog
       ELSE ConcFinish(t, "lookup", KeyErrorRaised, 0)
    /\ UNCHANGED <<loaded, cresult, ccalls, objects, cstore, cnow, cttl,
                   invocations>>
    /\ UNCHANGED <<genVars, cacheVars, retryVars, txnVars, connVars, ageVars, execVars, stackVars, poolVars>>

\* CacheEntry.is_expired(ttl) of the object thread t holds
ConcIsExpired(t) ==
    IF cttl <= 0 THEN FALSE
    ELSE cnow > objects[cache_entry[t]].timestamp + cttl

\* if not cache_entry.is_expired(ttl)
ConcExpiry(t) ==
    /\ cpc[t] = "expiry"
    /\ cpc' = [cpc EXCEPT ![t] = IF ConcIsExpired(t) THEN "delete" ELSE "load"]
    /\ UNCHANGED <<cache_entry, loaded, cresult, ccalls, objects, cstore,
                   cnow, cttl, invocations, clog>>
    /\ UNCHANGED <<genVars, cacheVars, retryVars, txnVars, connVars, ageVars, execVars, stackVars, poolVars>>

\* cache_entry.hit_count += 1, first half: the attribute is read
ConcLoad(t) ==
    /\ cpc[t] = "load"
    /\ loaded' = [loaded EXCEPT ![t] = objects[cache_entry[t]].hit_count]
    /\ cpc' = [cpc EXCEPT ![t] = "add"]
    /\ UNCHANGED <<cache_entry, cresult, ccalls, objects, cstore, cnow, cttl,
                   invocations, clog>>
    /\ UNCHANGED <<genVars, cacheVars, retryVars, txnVars, connVars, ageVars, execVars, stackVars, poolVars>>

\* cache_entry.hit_count += 1, second half: the sum is written back; then
\* return cache_entry.result
ConcAdd(t) ==
    /\ cpc[t] = "add"
    /\ objects' = [objects EXCEPT ![cache_entry[t]].hit_count = loaded[t] + 1]
    /\ ConcFinish(t, "hit", [kind |-> "Returns",
                             msg |-> <<objects[cache_entry[t]].result>>],
                  cache_entry[t])
    /\ UNCHANGED <<loaded, cresult, ccalls, cstore, cnow, cttl, invocations>>
    /\ UNCHANGED <<genVars, cacheVars, retryVars, txnVars, connVars, ageVars, execVars, stackVars, poolVars>>

\* del query_cache[cache_key]
ConcDelete(t) ==
    /\ cpc[t] = "delete"
    /\ IF cstore # 0
       THEN /\ cstore' = 0
            /\ cpc' = [cpc EXCEPT ![t] = "invoke"]
            /\ UNCHANGED <<cache_entry, clog>>
       ELSE /\ ConcFinish(t, "expired", KeyErrorRaised, 0)
            /\ UNCHANGED cstore
    /\ UNCHANGED <<loaded, cresult, ccalls, objects, cnow, cttl, invocations>>
    /\ UNCHANGED <<genVars, cacheVars, retryVars, txnVars, connVars, ageVars, execVars, stackVars, poolVars>>

\* result = func(*args, **kwargs): it returns the rows of this invocation
\* (ok) or raises, and then the except clause re-raises
ConcInvoke(t, ok) ==
    /\ cpc[t] = "invoke"
    /\ invocations' = invocations + 1
    /\ IF ok
       THEN /\ cresult' = [cresult EXCEPT ![t] = invocations + 1]
            /\ cpc' = [cpc EXCEPT ![t] = "store"]
            /\ UNCHANGED <<cache_entry, clog>>
       ELSE /\ ConcFinish(t, "miss", Simulated, 0)
            /\ UNCHANGED cresult
    /\ UNCHANGED <<loaded, ccalls, objects, cstore, cnow, cttl>>
    /\ UNCHANGED <<genVars, cacheVars, retryVars, txnVars, connVars, ageVars, execVars, stackVars, poolVars>>

ConcStoreFirstWins(t) ==
    /\ cpc[t] = "store"
    /\ objects' = Append(objects, [result |-> cresult[t], timestamp |-> cnow,
                                   hit_count |-> 0])
    /\ cstore' = (IF cstore = 0 THEN Len(objects) + 1 ELSE cstore)
    /\ ConcFinish(t, "miss", [kind |-> "Returns", msg |-> <<cresult[t]>>],
                  Len(objects) + 1)
    /\ UNCHANGED <<loaded, cresult, ccalls, cnow, cttl, invocations>>
    /\ UNCHANGED <<genVars, cacheVars, retryVars, txnVars, connVars, ageVars, execVars, stackVars, poolVars>>

\* cache_entry = CacheEntry(result, query_hash),
\* query_cache[cache_key] = cache_entry, return result
ConcStore(t) ==
    /\ cpc[t] = "store"
    /\ objects' = Append(objects, [result |-> cresult[t], timestamp |-> cnow,
                                   hit_count |-> 0])
    /\ cstore' = Len(objects) + 1
    /\ ConcFinish(t, "miss", [kind |-> "Returns", msg |-> <<cresult[t]>>],
                  Len(objects) + 1)
    /\ UNCHANGED <<loaded, cresult, ccalls, cnow, cttl, invocations>>
    /\ UNCHANGED <<genVars, cacheVars, retryVars, txnVars, connVars, ageVars, execVars, stackVars, poolVars>>

\* a second passes
ConcTick ==
    /\ cnow < MaxConcTime
    /\ cnow' = cnow + 1
    /\ UNCHANGED <<cpc, cache_entry, loaded, cresult, ccalls, objects, cstore,
                   cttl, invocations, clog>>
    /\ UNCHANGED <<genVars, cacheVars, retryVars, txnVars, connVars, ageVars, execVars, stackVars, poolVars>>

InitConc ==
    /\ cpc = [t \in Threads |-> "idle"]
    /\ cache_entry = [t \in Threads |-> 0]
    /\ loaded = [t \in Threads |-> 0]
    /\ cresult = [t \in Threads |-> 0]
    /\ ccalls = [t \in Threads |-> 0]
    /\ objects = <<>> /\ cstore = 0 /\ cnow = 0 /\ cttl \in Ttls
    /\ invocations = 0 /\ clog = <<>>
    /\ GenIdle /\ CacheIdle /\ RetryIdle /\ TxnIdle /\ ConnIdle /\ AgeIdle /\ ExecIdle /\ StackIdle /\ PoolIdle

NextConc ==
    \/ \E t \in Threads : ConcCall(t)
    \/ \E t \in Threads : ConcLookup(t)
    \/ \E t \in Threads : ConcGet(t)
    \/ \E t \in Threads : ConcExpiry(t)
    \/ \E t \in Threads : ConcLoad(t)
    \/ \E t \in Threads : ConcAdd(t)
    \/ \E t \in Threads : ConcDelete(t)
    \/ \E t \in Threads, ok \in BOOLEAN : ConcInvoke(t, ok)
    \/ \E t \in Threads : ConcStore(t)
    \/ ConcTick

SpecConc == InitConc /\ [][NextConc]_vars

\* ---- properties of the streaming layer (SpecGen) --------------------------
Ended == pc \in {"exhausted", "closed", "raised"}

BatchShapeOk ==
    \A i \in 1..Len(yielded) :
        /\ Len(yielded[i]) >= 1
        /\ Len(yielded[i]) <= batch_size
        /\ (i < Len(yielded) => Len(yielded[i]) = batch_size)

\* C1: with batch_size > 0 and a source that never fails, the batches of
\* stream_users_in_batches are the contiguous chunks of R in order: no batch
\* is empty, only the last may be short, what has been yielded so far is
\* the prefix of R the cursor has handed out, and at exhaustion the
\* concatenation of the batches is R.
C1_BatchesPartitionR ==
    (gen = "batch" /\ batch_size > 0 /\ fault = "none") =>
        /\ BatchShapeOk
        /\ Concat(yielded) = SubSeq(R, 1, pos)
        /\ (pc = "exhausted" => Concat(yielded) = R)

C1_Witness ==
    /\ gen = "batch" /\ batch_size = 2 /\ fault = "none" /\ pc = "exhausted"
    /\ Len(R) = 3 /\ Len(yielded) = 2 /\ Len(yielded[2]) = 1

\* a database error came after something had been yielded
CutShort ==
    /\ gen \in {"stream", "batch"} /\ fault \in {"fetch", "lost"}
    /\ yielded # <<>>

\* the rows the consumer has received
Received == IF gen = "batch" THEN Concat(yielded) ELSE yielded

\* C28: when the source raises a database error after stream_users or
\* stream_users_in_batches has yielded something, the generator ends as
\* exhausted with no exception for the consumer, and what was yielded is a
\* prefix of R, in batches of the regular shape: exactly what a clean run
\* over that prefix yields, so nothing shows that R was cut short.
C28_CutShortLooksExhausted ==
    CutShort =>
        /\ pc = "exhausted" /\ exc = "none"
        /\ pos <= Len(R)
        /\ Received = FormatRows(SubSeq(R, 1, pos))
        /\ gen = "batch" => BatchShapeOk

C28_Witness ==
    /\ gen = "stream" /\ fault = "fetch" /\ pc = "exhausted" /\ exc = "none"
    /\ Len(R) = 4 /\ Len(yielded) = 2 /\ requests = 3

Ceil(a, b) == (a + b - 1) \div b

PagExhaustedClean ==
    gen = "paginate" /\ page_size > 0 /\ fault = "none" /\ pc = "exhausted"

\* C2 as stated: consuming lazy_paginate to exhaustion over a source that
\* never fails yields pages whose concatenation is R, and the number of
\* paginate_users calls is ceil(|R| / page_size).
C2_FetchCountIsCeil ==
    PagExhaustedClean =>
        /\ Concat(yielded) = R
        /\ Len(fetchLog) = Ceil(Len(R), page_size)

\* C2 amended: the concatenation of the pages is R and the number of
\* paginate_users calls is floor(|R| / page_size) + 1: the generator only
\* stops after a fetch that returns fewer than page_size rows, so an empty R
\* and an R of an exact multiple of page_size rows cost one more fetch than
\* ceil(|R| / page_size).
C2_FetchCount ==
    PagExhaustedClean =>
        /\ Concat(yielded) = R
        /\ Len(fetchLog) = (Len(R) \div page_size) + 1

C2_Witness ==
    /\ PagExhaustedClean /\ page_size = 2 /\ Len(R) = 4
    /\ Len(yielded) = 2 /\ Len(fetchLog) = 3

\* the rows the i-th paginate_users call returned: the rows of R from its
\* offset on, at most page_size of them, or none when the call failed (a
\* failed call is the last one)
FetchedRows(i) ==
    IF fault # "none" /\ i = Len(fetchLog) THEN <<>>
    ELSE FormatRows(LimitOffset(R, fetchLog[i][1], fetchLog[i][2]))

\* C22: the fetches of lazy_paginate are issued with limit page_size and
\* offsets 0, page_size, 2 * page_size, ... whatever the pages held; every
\* fetch that was followed by another returned a full page, so after a
\* short page (which is yielded) or an empty one (which is not) no further
\* fetch is issued.
C22_OffsetsAndStop ==
    gen = "paginate" =>
        /\ \A i \in 1..Len(fetchLog) :
               fetchLog[i] = <<page_size, (i - 1) * page_size>>
        /\ \A i \in 1..(Len(fetchLog) - 1) :
               Len(FetchedRows(i)) = page_size
        /\ \A i \in 1..Len(fetchLog) :
               IF FetchedRows(i) = <<>>
               THEN Len(yielded) = i - 1
               ELSE i <= Len(yielded) /\ yielded[i] = FetchedRows(i)

C22_Witness ==
    /\ gen = "paginate" /\ pc = "exhausted" /\ fault = "none"
    /\ page_size = 3 /\ Len(R) = 4 /\ requests = 3
    /\ fetchLog = <<<<3, 0>>, <<3, 3>>>>
    /\ Len(yielded) = 2 /\ Len(yielded[2]) = 1

\* C3: once a generator created with a size <= 0 is run, it has failed with
\* ValueError, and no connection was opened, no cursor created and no fetch
\* issued.
C3_InvalidSizeBeforeIO ==
    /\ (gen = "batch" /\ batch_size <= 0 /\ requests >= 1) =>
           /\ pc = "raised" /\ exc = "ValueError"
           /\ opened = 0 /\ conn = "none" /\ cursor = "unbound"
           /\ pos = 0 /\ yielded = <<>>
    /\ (gen = "paginate" /\ page_size <= 0 /\ requests >= 1) =>
           /\ pc = "raised" /\ exc = "ValueError"
           /\ opened = 0 /\ conn = "none" /\ cursor = "unbound"
           /\ fetchLog = <<>> /\ yielded = <<>>

C3_Witness ==
    /\ gen = "batch" /\ batch_size = 0 /\ requests = 1
    /\ pc = "raised" /\ exc = "ValueError" /\ opened = 0

\* C8: however a stream_users stream that obtained a connection ends, the
\* connection is not left open and close() was called on it exactly once
\* (a connection the server dropped counts as released without a call).
C8_ClosedExactlyOnce ==
    (gen = "stream" /\ Ended /\ opened >= 1) =>
        /\ conn # "open"
        /\ closeCalls <= 1
        /\ (conn = "closed" => closeCalls = 1)

PagFetchFailed == gen = "paginate" /\ fault \in {"connect", "execute", "fetch", "lost"}

\* no page was yielded for the offset of the last fetch
NoPageForOffset ==
    /\ fetchLog # <<>>
    /\ fetchLog[Len(fetchLog)] = <<page_size, offset>>
    /\ Len(yielded) * page_size = offset

\* C9 as stated: when a page fetch fails (the query raises a database error
\* or no connection can be obtained), the failure is raised to the consumer
\* at that request and no page is yielded for that offset.
C9_FetchFailureRaised ==
    PagFetchFailed => (pc = "raised" /\ exc # "none" /\ NoPageForOffset)

\* C9 amended: when a page fetch fails in one of these ways, paginate_users
\* swallows the failure and returns an empty page, so no error reaches the
\* consumer, the stream ends at that request as if it were exhausted, and
\* no page is yielded for that offset.
C9_FetchFailureEndsStream ==
    PagFetchFailed => (pc = "exhausted" /\ exc = "none" /\ NoPageForOffset)

C9_Witness ==
    /\ gen = "paginate" /\ fault = "execute" /\ pc = "exhausted"
    /\ Len(yielded) = 1 /\ Len(fetchLog) = 2

\* C18: lazy_paginate never fetches ahead of demand: nothing is fetched
\* before the first request, the number of paginate_users calls never
\* exceeds the number of requests the consumer has made, and a consumer
\* that takes one page and stops has caused exactly one fetch.
C18_NoFetchAhead ==
    gen = "paginate" =>
        /\ Len(fetchLog) <= requests
        /\ (pc = "created" => fetchLog = <<>>)
        /\ (pc = "closed" /\ requests = 1 /\ Len(yielded) = 1) =>
               Len(fetchLog) = 1

C18_Witness ==
    /\ gen = "paginate" /\ pc = "closed" /\ requests = 1
    /\ page_size = 1 /\ Len(R) = 4
    /\ Len(yielded) = 1 /\ fetchLog = <<<<1, 0>>>>

\* ---- properties of calculate_average_age (SpecAges) ------------------------
RECURSIVE SumAges(_, _)
\* the sum of the ages of the first k rows
SumAges(rows, k) == IF k = 0 THEN 0 ELSE SumAges(rows, k - 1) + rows[k].age

\* C17: while calculate_average_age loops, total_age is the sum of the ages
\* of the rows consumed so far and user_count is their number; it returns
\* that sum divided by that count, which over a source that does not fail is
\* the sum over all rows divided by their number (33.4 for the ages 28, 35,
\* 42, 29, 33), and it returns 0.0 when no row was streamed.
C17_AverageIsSumOverCount ==
    /\ apc \in {"looping", "returned"} =>
          /\ user_count = pos /\ user_count = Len(yielded)
          /\ total_age = SumAges(R, pos)
    /\ apc = "returned" =>
          /\ (user_count = 0 => average = Fraction(0, 1))
          /\ (user_count > 0 =>
                 average.num * user_count = SumAges(R, pos) * average.den)
          /\ (fault = "none" => pos = Len(R))
          /\ ((fault = "none" /\ Len(R) = 5) =>
                 average.num * 10 = 334 * average.den)

C17_Witness ==
    /\ apc = "returned" /\ fault = "none" /\ Len(R) = 5
    /\ yielded = <<28, 35, 42, 29, 33>>
    /\ total_age = 167 /\ user_count = 5 /\ average = Fraction(167, 5)

\* ---- properties of retry_on_failure (SpecRetry) ---------------------------
IsError(o) == o # Returns

Transient(o) == IsError(o) /\ IsRetryable(o)

\* C5: with retries >= 2, after one or two invocations that each raised an
\* error the classifier calls retryable the wrapper is still running, with
\* one wait per failure, so a third invocation follows; when that one
\* succeeds the wrapper returns its result after exactly 3 invocations.
\* When the first invocation raises an error the classifier calls
\* non-retryable, the wrapper re-raises it after that single invocation and
\* without a wait.
C5_RetryThenSucceed ==
    /\ (retries >= 2 /\ Len(outcomes) \in {1, 2}
          /\ \A i \in 1..Len(outcomes) : Transient(outcomes[i])) =>
           (rpc = "running" /\ attempt = Len(outcomes)
              /\ Len(sleeps) = Len(outcomes))
    /\ (retries >= 2 /\ Len(outcomes) >= 3
          /\ Transient(outcomes[1]) /\ Transient(outcomes[2])
          /\ outcomes[3] = Returns) =>
           (rpc = "returned" /\ result = "rows" /\ Len(outcomes) = 3
              /\ Len(sleeps) = 2)
    /\ (Len(outcomes) >= 1 /\ IsError(outcomes[1]) /\ ~IsRetryable(outcomes[1])) =>
           (rpc = "raised" /\ last_exception = outcomes[1]
              /\ Len(outcomes) = 1 /\ sleeps = <<>>)

C5_Witness ==
    /\ retries = 2 /\ rpc = "returned" /\ result = "rows"
    /\ outcomes = <<Simulated, DatabaseLocked, Returns>> /\ Len(sleeps) = 2

\* the error reports a syntax error, a missing table or column, or a
\* constraint violation
ReportsPermanent(e) ==
    \E p \in non_retryable_patterns : Contains(p, Lower(e.msg))

\* C10: when the first invocation raises an error that reports a syntax
\* error, a missing table, a missing column or a constraint violation,
\* whatever its class, the wrapped function is invoked exactly once, no wait
\* happens and that error is re-raised.
C10_PermanentNotRetried ==
    (Len(outcomes) >= 1 /\ IsError(outcomes[1]) /\ ReportsPermanent(outcomes[1])) =>
        (rpc = "raised" /\ last_exception = outcomes[1]
           /\ Len(outcomes) = 1 /\ sleeps = <<>>)

\* C11: when the first invocation raises the ValueError of a non-positive
\* batch or page size or of a missing connection handle, the wrapped
\* function is invoked exactly once, no wait happens and that error is
\* re-raised.
C11_InvalidArgumentNotRetried ==
    (Len(outcomes) >= 1 /\ outcomes[1] \in InvalidArguments) =>
        (rpc = "raised" /\ last_exception = outcomes[1]
           /\ Len(outcomes) = 1 /\ sleeps = <<>>)

AllTransient == \A i \in 1..Len(outcomes) : Transient(outcomes[i])

\* C14: with retries = N the wrapped function is never invoked more than
\* N + 1 times in one call.  While every invocation so far raised a
\* retryable error, each of the first N failures is followed by one wait and
\* the wrapper goes on; the failure of invocation N + 1 ends the call, which
\* re-raises the error of that last invocation after exactly N waits.
C14_GivesUpAfterRetries ==
    /\ Len(outcomes) <= retries + 1
    /\ (rpc # "idle" /\ AllTransient) =>
          IF Len(outcomes) <= retries
          THEN rpc = "running" /\ Len(sleeps) = Len(outcomes)
          ELSE /\ rpc = "raised" /\ Len(outcomes) = retries + 1
               /\ Len(sleeps) = retries
               /\ last_exception = outcomes[Len(outcomes)]

C14_Witness ==
    /\ retries = 3 /\ rpc = "raised" /\ AllTransient
    /\ Len(outcomes) = 4 /\ Len(sleeps) = 3
    /\ outcomes[1] = Simulated /\ outcomes[4] = DatabaseLocked
    /\ last_exception = DatabaseLocked

\* the range random.uniform(0.1, 0.5) draws from, in tenths of a second
JitterRange == 1..5

RECURSIVE Pow2(_)
Pow2(n) == IF n = 0 THEN 1 ELSE 2 * Pow2(n - 1)

\* C23 as stated: the wait after failed attempt k is delay * 2^k plus one
\* jitter value of the range, for every k for which a retry happens
\* (sleeps[k + 1] is the wait after failed attempt k).
C23_WaitIsBackoffPlusOneJitter ==
    \A k \in 0..(Len(sleeps) - 1) :
        \E j \in JitterRange : sleeps[k + 1] = delay * Pow2(k) + j

\* C23 amended: the wait after failed attempt 0 is delay exactly, with no
\* jitter; each later wait is twice the wait before it plus one jitter value
\* of the range, so the wait after failed attempt k lies between
\* delay * 2^k + (2^k - 1) * 0.1 and delay * 2^k + (2^k - 1) * 0.5: the
\* jitter drawn after each wait is doubled together with the delay.
C23_WaitDoublesWithJitter ==
    \A k \in 0..(Len(sleeps) - 1) :
        /\ IF k = 0
           THEN sleeps[1] = delay
           ELSE \E j \in JitterRange : sleeps[k + 1] = 2 * sleeps[k] + j
        /\ sleeps[k + 1] >= delay * Pow2(k) + (Pow2(k) - 1) * 1
        /\ sleeps[k + 1] <= delay * Pow2(k) + (Pow2(k) - 1) * 5

C23_Witness ==
    /\ delay = 10 /\ retries = 3 /\ rpc = "raised"
    /\ sleeps = <<10, 25, 51>>

\* ---- properties of cache_query (SpecCache) --------------------------------
SameCall(i, j) ==
    callLog[i].func = callLog[j].func /\ callLog[i].arg = callLog[j].arg

\* call i invoked the wrapped function and stored its result
Stored(i) == callLog[i].invoked /\ ~callLog[i].raised

WithinTtl(i, j) == ttl <= 0 \/ callLog[j].time <= callLog[i].time + ttl

\* the cache key of call i, made with the connection of that call
KeyOf(i) ==
    GenerateCacheKey(callLog[i].func,
                     <<[type |-> "conn", items |-> <<i>>], callLog[i].arg>>)

\* C4: in a single-threaded sequence of calls with no clear_cache() in
\* between, (1) a call that repeats the
\* arguments of an earlier call which stored its result, within the TTL of
\* that result, does not invoke the wrapped function; (2) a call is answered
\* from the cache only if an earlier call had the same arguments, so two
\* calls with different arguments invoke the function twice; (3) with a
\* TTL > 0, a call that repeats the arguments of the last invoking call
\* after its TTL has elapsed invokes the wrapped function again.
C4_CacheContract ==
    clearLog = <<>> =>
    /\ \A i, j \in 1..Len(callLog) :
          (i < j /\ SameCall(i, j) /\ Stored(i) /\ WithinTtl(i, j)) =>
              ~callLog[j].invoked
    /\ \A j \in 1..Len(callLog) :
          ~callLog[j].invoked =>
              \E i \in 1..(j - 1) : SameCall(i, j) /\ Stored(i)
    /\ \A i, j \in 1..Len(callLog) :
          (/\ i < j /\ SameCall(i, j) /\ Stored(i) /\ ttl > 0
           /\ callLog[j].time > callLog[i].time + ttl
           /\ \A k \in (i + 1)..(j - 1) : SameCall(i, k) => ~callLog[k].invoked) =>
              callLog[j].invoked

\* C16: two calls of the same operation with equal non-connection arguments
\* get the same cache key although their connections differ, and two calls
\* of it whose non-connection arguments differ get different keys.
C16_KeyFollowsArguments ==
    \A i, j \in 1..Len(callLog) :
        (i < j /\ callLog[i].func = callLog[j].func) =>
            (KeyOf(i) = KeyOf(j)) = (callLog[i].arg = callLog[j].arg)

\* a step in which the wrapper was called
Called == Len(callLog') = Len(callLog) + 1

\* the call of that step and its cache key
NewCall == callLog'[Len(callLog')]

NewKey ==
    GenerateCacheKey(NewCall.func,
                     <<[type |-> "conn", items |-> <<Len(callLog')>>],
                       NewCall.arg>>)

\* key k holds the same entry before and after the step
SameEntry(k) ==
    /\ k \in DOMAIN query_cache /\ k \in DOMAIN query_cache'
    /\ query_cache'[k].timestamp = query_cache[k].timestamp

\* C24: in single-threaded use, a hit within the validity window raises
\* hit_count of the entry by exactly 1; no step lowers hit_count of an
\* entry; the first lookup of a key after its entry expired deletes the
\* entry, and an entry a miss stores starts with hit_count 0.
C24_HitCount ==
    [][/\ \A k \in DOMAIN query_cache :
             SameEntry(k) =>
                 query_cache'[k].hit_count >= query_cache[k].hit_count
       /\ Called =>
             IF NewKey \in DOMAIN query_cache
             THEN IF ~IsExpired(query_cache[NewKey], ttl)
                  THEN /\ SameEntry(NewKey)
                       /\ query_cache'[NewKey].hit_count =
                              query_cache[NewKey].hit_count + 1
                       /\ \A k \in DOMAIN query_cache \ {NewKey} :
                              SameEntry(k) /\ query_cache'[k] = query_cache[k]
                  ELSE /\ ~SameEntry(NewKey)
                       /\ NewKey \in DOMAIN query_cache' =>
                              /\ ~NewCall.raised
                              /\ query_cache'[NewKey].hit_count = 0
                              /\ query_cache'[NewKey].timestamp = now
             ELSE NewKey \in DOMAIN query_cache' =>
                      query_cache'[NewKey].hit_count = 0]_vars

C24_Witness ==
    /\ Len(callLog) = 3 /\ SameCall(1, 2) /\ SameCall(1, 3) /\ ttl = 1
    /\ callLog[1].invoked /\ ~callLog[2].invoked
    /\ callLog[3].invoked /\ ~callLog[3].raised
    /\ callLog[3].time > callLog[1].time + ttl
    /\ query_cache[KeyOf(3)].hit_count = 0
    /\ query_cache[KeyOf(3)].timestamp = callLog[3].time

\* C29: a call whose wrapped operation raises leaves no entry for its key:
\* the failure is not cached and an expired entry the call found is gone;
\* the entries of all other keys are unchanged and no entry is added; and
\* a call whose latest predecessor with the same key raised invokes the
\* wrapped operation again.
C29_FailureNotCached ==
    [][Called =>
         /\ NewCall.raised =>
                /\ NewKey \notin DOMAIN query_cache'
                /\ DOMAIN query_cache' = (DOMAIN query_cache) \ {NewKey}
                /\ \A k \in DOMAIN query_cache' :
                       query_cache'[k] = query_cache[k]
         /\ \A i \in 1..Len(callLog) :
                (/\ callLog[i].raised
                 /\ KeyOf(i) = NewKey
                 /\ \A k \in (i + 1)..Len(callLog) : KeyOf(k) # NewKey) =>
                    NewCall.invoked]_vars

C29_Witness ==
    /\ Len(callLog) = 3 /\ SameCall(1, 2) /\ SameCall(2, 3) /\ ttl = 1
    /\ Stored(1) /\ callLog[2].raised /\ callLog[3].invoked
    /\ callLog[2].time > callLog[1].time + ttl
    /\ KeyOf(1) \notin DOMAIN query_cache

\* a step in which clear_cache() was called
Cleared == Len(clearLog') = Len(clearLog) + 1

\* the Python int n
IntValue(n) == [type |-> "int", value |-> n]

\* C15 as stated: clear_cache leaves the cache with zero entries and
\* returns the number of entries it removed, whatever the cache held.
C15_ClearReturnsCount ==
    [][Cleared =>
         /\ query_cache' = <<>>
         /\ clearLog'[Len(clearLog')].returned =
                IntValue(Cardinality(DOMAIN query_cache))]_vars

\* C15 amended: clear_cache leaves the cache with zero entries and prints
\* the number of entries it removed, whatever the cache held; the value it
\* returns is None.
C15_ClearPrintsCount ==
    [][Cleared =>
         /\ query_cache' = <<>>
         /\ clearLog'[Len(clearLog')].printed = Cardinality(DOMAIN query_cache)
         /\ clearLog'[Len(clearLog')].returned = PyNone]_vars

C15_Witness ==
    /\ clearLog # <<>> /\ clearLog[1].printed = 2
    /\ clearLog[1].returned = PyNone
    /\ query_cache = <<>> /\ Len(callLog) = 2

\* ---- properties of transactional (SpecTxn) --------------------------------
TxnOver == tpc = "idle" /\ plan.call >= 1

\* C6: after a transactional call the store holds all the writes of the
\* call when it returned normally and none of them when it raised, also
\* when the operation raised after some of its writes; while the call runs
\* the committed store is the one the call started from.
C6_AllOrNothing ==
    /\ tpc = "body" => store = before
    /\ TxnOver =>
          IF texc = "none"
          THEN store = before \cup Writes(plan)
          ELSE store = before /\ store \cap Writes(plan) = {}

C6_Witness ==
    /\ TxnOver /\ plan.writes = 2 /\ plan.failKind = "op" /\ plan.failAt = 1
    /\ tlog = <<"connect", "BEGIN", "write", "rollback", "close">>
    /\ texc = "Exception" /\ store = before

\* number of entries of log that are x
Count(log, x) == Cardinality({i \in 1..Len(log) : log[i] = x})

\* BEGIN is in the log before the wrapped operation runs
BeginFirst == tpc = "body" => (Len(tlog) >= 2 /\ tlog[2] = "BEGIN")

OpReturned == TxnOver /\ plan.failKind \in {"none", "commit"}

OpRaised == TxnOver /\ plan.failKind \in {"op", "opBase"}

C13_NoConnectionRejected ==
    /\ (TxnOver /\ plan.failKind = "noconn") =>
          /\ texc = "ValueError" /\ tlog = <<>>
          /\ store = before /\ ~inTxn /\ tconn = "none"
    /\ tpc = "body" => plan.failKind # "noconn"

C13_Witness ==
    /\ TxnOver /\ plan.failKind = "noconn" /\ plan.call = 2
    /\ texc = "ValueError" /\ tlog = <<>> /\ store # {}

\* ---- properties of the stacked decorators (SpecStack) ----------------------
StackCallOver == sig.dir = "idle" /\ scalls >= 1

\* C19: for every stack of the four decorators, a call in which the last
\* invocation of the decorated function raised gives that error to its
\* caller, never a value, and by then every wrapper has done its cleanup: a
\* connection that was opened is closed and a transaction that was begun
\* is rolled back or committed.
C19_ErrorsPropagate ==
    StackCallOver =>
        /\ (sops # <<>> /\ IsError(sops[Len(sops)])) =>
               sresult = sops[Len(sops)]
        /\ Count(scleanup, "connect") = Count(scleanup, "close")
        /\ Count(scleanup, "BEGIN") =
               Count(scleanup, "commit") + Count(scleanup, "rollback")

C19_Witness ==
    /\ StackCallOver
    /\ stack = <<"with_db_connection", "retry_on_failure">>
    /\ sops = <<Simulated, UniqueFailed>> /\ sresult = UniqueFailed
    /\ scleanup = <<"connect", "close">>

\* C26: under a stack whose outermost decorator is with_db_connection, a
\* call has opened exactly one connection and not closed it for as long as
\* any wrapper of the stack runs, so every attempt of an inner
\* retry_on_failure runs on that connection; when the call has returned or
\* raised, also on a hit of an inner cache_query that never invoked the
\* function, that connection has been closed and it was the only one the
\* call opened.
C26_OneConnectionPerCall ==
    (Len(stack) >= 1 /\ stack[1] = "with_db_connection") =>
        /\ frames # <<>> =>
               /\ scleanup[1] = "connect"
               /\ Count(scleanup, "connect") = 1
               /\ Count(scleanup, "close") = 0
        /\ ((frames = <<>> /\ sig.dir = "up") \/ StackCallOver) =>
               /\ Count(scleanup, "connect") = 1
               /\ Count(scleanup, "close") = 1
               /\ scleanup[1] = "connect"
               /\ scleanup[Len(scleanup)] = "close"

C26_Witness ==
    /\ StackCallOver /\ scalls = 2
    /\ stack = <<"with_db_connection", "cache_query">>
    /\ scached /\ sops = <<>> /\ sresult = Returns
    /\ scleanup = <<"connect", "close">>

\* ---- properties of ExecuteQuery (SpecExec) ---------------------------------
\* C20: whenever control is outside every with statement, each connection
\* and each cursor an ExecuteQuery opened is closed, also when the query
\* failed while __enter__ executed it.
C20_ClosedOnLeave ==
    xpc = "idle" =>
        \A i \in 1..Len(xres) :
            xres[i].conn = "closed" /\ xres[i].cur \in {"none", "closed"}

\* ---- properties of DatabaseConnectionPool (SpecPool) -----------------------
\* C21: after any sequence of enters and exits of one pool, nested ones
\* included, active_connections is at least 0 and at most pool_size.
C21_ActiveWithinPoolSize ==
    0 <= active_connections /\ active_connections <= pool_size

\* C30: once every with block on the pool has been left, every connection
\* __enter__ opened is closed, active_connections is 0 and every entry of
\* connection_history has status closed.
C30_NothingLeftOpen ==
    pblocks = <<>> =>
        /\ \A i \in 1..Len(pconns) : pconns[i] = "closed"
        /\ active_connections = 0
        /\ \A i \in 1..Len(connection_history) :
               connection_history[i].status = "closed"

\* ---- properties of cache_query under two threads (SpecConc) ---------------
\* finished calls that were hits on object o
HitsOn(o) == {i \in 1..Len(clog) : clog[i].how = "hit" /\ clog[i].entry = o}

\* finished calls that stored an object
Stores == {i \in 1..Len(clog) : clog[i].how = "miss" /\ clog[i].entry # 0}

\* C25: with two unsynchronised callers of one key, the dict holds the
\* object of the latest store whenever it holds one (last write wins, the
\* earlier store of two concurrent misses is overwritten), and hit_count of
\* an object is at least 1 once a hit on it has finished and never more
\* than the number of finished hits on it, so two hits may count as one;
\* the witness is an interleaving in which both happen.
C25_LastWriteWinsLostUpdate ==
    /\ cstore # 0 => cstore = Len(objects)
    /\ \A o \in 1..Len(objects) :
          /\ objects[o].hit_count <= Cardinality(HitsOn(o))
          /\ HitsOn(o) # {} => objects[o].hit_count >= 1

C25_Witness ==
    /\ Len(clog) = 4 /\ invocations = 2 /\ Len(objects) = 2 /\ cnow = 0
    /\ Stores = {1, 2} /\ clog[1].thread # clog[2].thread
    /\ cstore = clog[2].entry
    /\ HitsOn(cstore) = {3, 4} /\ clog[3].thread # clog[4].thread
    /\ objects[cstore].hit_count = 1

\* C27: under concurrent callers every finished call gave its caller a
\* result or the error of the wrapped function, never an error of the
\* wrapper's own dict operations.
C27_WrapperNeverFails ==
    \A i \in 1..Len(clog) : clog[i].outcome.kind # "KeyError"

\* ---- properties of with_db_connection (SpecConn) --------------------------
\* the call that opened connection i is over
CallOver(i) == i < Len(wconns) \/ wpc = "idle"

\* C7: the connection a with_db_connection call opened is closed exactly
\* once when the call is over, whether func returned or raised, and is open
\* and not yet closed while func runs.
C7_ClosedExactlyOnce ==
    \A i \in 1..Len(wconns) :
        IF CallOver(i)
        THEN wconns[i].state = "closed" /\ wconns[i].closes = 1
        ELSE wconns[i].state = "open" /\ wconns[i].closes = 0

C7_Witness ==
    /\ Len(wlog) = 2 /\ wpc = "idle"
    /\ wlog[1].outcome = "return" /\ wlog[2].outcome = "Exception"
    /\ wconns[1].closes = 1 /\ wconns[2].closes = 1

====
